---- MODULE Spec2Model ----
(***************************************************************************)
(* Model of the trade-hedge engine: the hedge pass                         *)
(* (usecases.HedgeStrategyUseCase), the reconciliation pass                *)
(* (usecases.StatusCheckerUseCase), the hedge ledger (table hedged_trades) *)
(* and the two callers of the passes, the scheduler tick and the           *)
(* operator-triggered web actions.                                         *)
(*                                                                         *)
(* Numbers.  The Go code computes in float64.  The model computes in exact *)
(* rationals [n |-> numerator, d |-> denominator], d > 0, kept in lowest   *)
(* terms.  Trade.ProfitRatio is held in hundredths (RatioScale), so the    *)
(* Go value -0.06 is the model value -6.                                   *)
(***************************************************************************)
EXTENDS Integers, Sequences, FiniteSets, TLC

(***************************************************************************)
(* Bounds of the model.                                                    *)
(***************************************************************************)
MaxTrades == 2          \* open positions the position source can return
MaxPasses == 2          \* passes (hedge or reconciliation) started in a run
MaxOverlapPolls == 2    \* polls of a wait-for-fill explored while passes overlap
MaxSortLen == 3         \* length of the inputs of SortTradesByDrawdown in SpecSort

(***************************************************************************)
(* Program constants.                                                      *)
(***************************************************************************)
maxWaitAttempts == 30   \* hedge_strategy.go:324
RatioScale == 100       \* model unit of Trade.ProfitRatio: 1/100

Runners == {"scheduler", "operator"}
NULL == "NULL"              \* a nil string, error or status
Err == "Err"                \* a call returned an error
NilPrice == [n |-> 0, d |-> 0]      \* a nil *float64
NilTime == -1                       \* a nil *time.Time

(***************************************************************************)
(* Exact rational arithmetic (stands for float64).                         *)
(***************************************************************************)
RECURSIVE Gcd(_, _)
Gcd(a, b) == IF b = 0 THEN a ELSE Gcd(b, a % b)

Abs(x) == IF x < 0 THEN -x ELSE x

Rat(n, d) ==
    LET g == Gcd(Abs(n), d)
    IN  IF n = 0 THEN [n |-> 0, d |-> 1] ELSE [n |-> n \div g, d |-> d \div g]

RInt(n) == [n |-> n, d |-> 1]
RLt(a, b) == a.n * b.d < b.n * a.d
RLe(a, b) == a.n * b.d <= b.n * a.d
RMul(a, b) == Rat(a.n * b.n, a.d * b.d)
\* a / b for b > 0
RDiv(a, b) == Rat(a.n * b.d, a.d * b.n)
\* math.Round for a >= 0: nearest integer, halves away from zero
RRound(a) == (2 * a.n + a.d) \div (2 * a.d)

(***************************************************************************)
(* entities.OrderStatus                                                    *)
(***************************************************************************)
OrderStatusPending == "PENDING"
OrderStatusFilled == "FILLED"
OrderStatusPartiallyFilled == "PARTIALLY_FILLED"
OrderStatusCancelled == "CANCELLED"
OrderStatusRejected == "REJECTED"
OrderStatusUnknown == "UNKNOWN"

OrderStatuses ==
    {OrderStatusPending, OrderStatusFilled, OrderStatusPartiallyFilled,
     OrderStatusCancelled, OrderStatusRejected, OrderStatusUnknown}

\* a faulty variant: only FILLED counts as completed
IsCompleted_FilledOnly(s) == s = OrderStatusFilled

IsCompleted(s) ==
    s = OrderStatusFilled \/ s = OrderStatusCancelled \/ s = OrderStatusRejected

(***************************************************************************)
(* errors.StrategyError types and the other outcomes of a pass.            *)
(***************************************************************************)
ErrorTypeNoTrades == "NoTrades"
ErrorTypeNoLossyTrades == "NoLossyTrades"
ErrorTypeInsufficientBalance == "InsufficientBalance"
ErrorTypeInsufficientBalanceForMinLimit == "InsufficientBalanceForMinLimit"
Success == "Success"        \* the pass returned nil
Fatal == "Fatal"            \* the pass returned a plain (untyped) error
Panic == "Panic"            \* the pass ended in a run-time panic
Running == "Running"        \* the pass has not returned yet
NoPass == "NoPass"          \* the runner has not run a hedge pass yet

IsExpected(type) ==
    type = ErrorTypeNoTrades \/ type = ErrorTypeNoLossyTrades
        \/ type = ErrorTypeInsufficientBalanceForMinLimit

(***************************************************************************)
(* entities.Trade: the positions the position source can report.           *)
(***************************************************************************)
TradeIDs == 1..MaxTrades
ProfitRatios == {-6, -4, -3}            \* -0.06, -0.04, -0.03
\* the current price of a position; fixed per position id to keep the
\* snapshots few
CurrentRateOf(id) == IF id % 2 = 1 THEN 50000 ELSE 2

Trades ==
    {[ID |-> id, ProfitRatio |-> p, CurrentRate |-> RInt(CurrentRateOf(id))] :
        id \in TradeIDs, p \in ProfitRatios}

DistinctIDs(s) == \A i, j \in DOMAIN s : i # j => s[i].ID # s[j].ID

\* the answers GetActiveTrades can give: the open positions, in any order
TradeSnapshots ==
    {s \in UNION {[1..n -> Trades] : n \in 0..MaxTrades} : DistinctIDs(s)}

\* a faulty variant: a loss equal to the threshold counts as exceeding it
ShouldBeHedged_Inclusive(t, maxLossPercent) ==
    t.ProfitRatio * 100 <= -(maxLossPercent * RatioScale)

ShouldBeHedged(t, maxLossPercent) ==
    \* threshold := -(maxLossPercent / 100); t.ProfitRatio < threshold
    t.ProfitRatio * 100 < -(maxLossPercent * RatioScale)

Swap(s, i, j) == [s EXCEPT ![i] = s[j], ![j] = s[i]]

RECURSIVE SortInner(_, _, _)
SortInner(s, i, j) ==
    IF j > Len(s) THEN s
    ELSE IF s[i].ProfitRatio > s[j].ProfitRatio
         THEN SortInner(Swap(s, i, j), i, j + 1)
         ELSE SortInner(s, i, j + 1)

RECURSIVE SortOuter(_, _)
SortOuter(s, i) ==
    IF i > Len(s) - 1 THEN s ELSE SortOuter(SortInner(s, i, i + 1), i + 1)

SortTradesByDrawdown(trades) ==
    IF Len(trades) <= 1 THEN trades ELSE SortOuter(trades, 1)

CalculateQuantityFromAmount(amount, currentPrice) == RDiv(amount, currentPrice)

\* a faulty variant: the 1% buffer of the required amount is not demanded
HasSufficientBalance_NoBuffer(available, requiredAmount) ==
    RLe(RMul(requiredAmount, Rat(100, 101)), available)

HasSufficientBalance(available, requiredAmount) == RLe(requiredAmount, available)


(***************************************************************************)
(* entities.Trade.CalculateTakeProfitPrice.  int(x + 0.5) truncates, which *)
(* for x >= 0 is the floor; FormatFloat/ParseFloat at the same precision   *)
(* leaves a value with that many decimals unchanged.                       *)
(***************************************************************************)
RFloor(a) == a.n \div a.d
RAdd(a, b) == Rat(a.n * b.d + b.n * a.d, a.d * b.d)

FormatParse(x, precisionMultiplier) ==
    \* strconv.FormatFloat(x, 'f', precision, 64) then strconv.ParseFloat:
    \* the decimal nearest to x with the given number of decimals
    Rat(RRound(RMul(x, RInt(precisionMultiplier))), precisionMultiplier)

CalculateTakeProfitPrice(t, profitRatio) ==
    LET takeProfitPercent == RMul(Rat(-(t.ProfitRatio) * 100, RatioScale), profitRatio)
        rawPrice == RMul(t.CurrentRate,
                         RAdd(RInt(1), RDiv(takeProfitPercent, RInt(100))))
        multiplier == IF RLt(t.CurrentRate, Rat(1, 10000)) THEN 100000000 ELSE 10000
        roundedPrice == Rat(RFloor(RAdd(RMul(rawPrice, RInt(multiplier)), Rat(1, 2))),
                            multiplier)
    IN  FormatParse(roundedPrice, multiplier)

(***************************************************************************)
(* What the exchange gateway can answer.                                   *)
(***************************************************************************)
\* Balance.Available of the configured base currency (GetBalance)
Balances == {RInt(2), RInt(4), RInt(100), RInt(101)}

\* services.InstrumentInfo as GetInstrumentInfo parses it; 0 stands for a
\* missing or unparsable value
InstrumentInfos ==
    {[MinOrderAmt |-> a, MinOrderQty |-> q, StepSize |-> p[1], TickSize |-> p[2]] :
        a \in {RInt(0), RInt(1), RInt(5)},
        q \in {RInt(0), Rat(1, 100)},
        p \in {<<RInt(0), RInt(0)>>, <<Rat(1, 1000), Rat(1, 100)>>}}

\* OrderResult of PlaceOrder: transport error, Success = false, Success = true
PlaceOutcomes == {Err, "Rejected", "Placed"}

\* CumExecQty of a filled buy order, in percent of the requested quantity
FillPercents == {0, 94, 100}

(***************************************************************************)
(* Configuration accepted by Config.Validate.                              *)
(***************************************************************************)
Configs ==
    {[PositionAmount |-> a, MaxLossPercent |-> t, ProfitRatio |-> Rat(7, 10),
      RetryAttempts |-> n] :
        a \in {3, 100}, t \in {3, 5}, n \in {2}}

(***************************************************************************)
(* hedgeTrade, lines 169-307: balance check, sizing and the buy order.     *)
(* The result is what the function does next: return an error of the given *)
(* type, or go on to place the order.                                      *)
(***************************************************************************)
RoundToMultiple(x, size) == RMul(RInt(RRound(RDiv(x, size))), size)

\* lines 221-227: the minimum order value and quantity in force, with the
\* defaults for values the venue did not give
\* a faulty variant: a minimum quantity that is not positive is used as it is
minOrderQty_NoDefault(instrumentInfo) == instrumentInfo.MinOrderQty

\* a faulty variant: the minimum order value is read from MinOrderQty
minOrderValue_FromQty(instrumentInfo) ==
    IF RLe(instrumentInfo.MinOrderQty, RInt(0)) THEN RInt(100)
    ELSE instrumentInfo.MinOrderQty

minOrderValue(instrumentInfo) ==
    IF RLe(instrumentInfo.MinOrderAmt, RInt(0)) THEN RInt(100)
    ELSE instrumentInfo.MinOrderAmt

minOrderQty(instrumentInfo) ==
    IF RLe(instrumentInfo.MinOrderQty, RInt(0)) THEN Rat(1, 1000)
    ELSE instrumentInfo.MinOrderQty

\* a faulty variant: the price rounded to the tick is used whatever it is
BuyLimitPrice_Rounded(currentRate, tickSize) ==
    LET buffered == RMul(currentRate, Rat(1001, 1000))
    IN  IF RLt(RInt(0), tickSize) THEN RoundToMultiple(buffered, tickSize)
        ELSE buffered

\* lines 264-293: the limit price of the buy order, CurrentRate * 1.001
\* rounded to the tick; a rounded price that is not positive or is below
\* 0.0001 gives way to the unrounded one
BuyLimitPrice(currentRate, tickSize) ==
    LET buffered == RMul(currentRate, Rat(1001, 1000))
        limitPrice ==
            IF RLt(RInt(0), tickSize) THEN RoundToMultiple(buffered, tickSize)
            ELSE buffered
    IN  IF RLe(limitPrice, RInt(0)) \/ RLt(limitPrice, Rat(1, 10000))
        THEN buffered ELSE limitPrice

HedgeTradeSizing(cfg, trade, balance, balanceErr, info, infoErr) ==
    LET requiredAmount == Rat(cfg.PositionAmount * 101, 100)
        adjustedPositionAmount == RInt(cfg.PositionAmount)
        quantity0 == CalculateQuantityFromAmount(adjustedPositionAmount,
                                                 trade.CurrentRate)
        instrumentInfo ==
            IF infoErr
            THEN [MinOrderAmt |-> RInt(100), MinOrderQty |-> RInt(0),
                  StepSize |-> RInt(0), TickSize |-> RInt(0)]
            ELSE info
        stepSize == instrumentInfo.StepSize
        orderQuantity ==
            IF RLt(RInt(0), stepSize) THEN RoundToMultiple(quantity0, stepSize)
            ELSE quantity0
        orderValue == adjustedPositionAmount
        tickSize == instrumentInfo.TickSize
        price == BuyLimitPrice(trade.CurrentRate, tickSize)
        none == [type |-> NULL, Quantity |-> NilPrice, Price |-> NilPrice,
                 tickSize |-> NilPrice]
    IN  IF balanceErr THEN [none EXCEPT !.type = Fatal]
        ELSE IF ~HasSufficientBalance(balance, requiredAmount)
        THEN [none EXCEPT !.type = ErrorTypeInsufficientBalance]
        ELSE IF RLt(orderValue, minOrderValue(instrumentInfo))
        THEN [none EXCEPT !.type = ErrorTypeInsufficientBalanceForMinLimit]
        ELSE IF RLt(orderQuantity, minOrderQty(instrumentInfo))
        THEN [none EXCEPT !.type = ErrorTypeInsufficientBalanceForMinLimit]
        ELSE IF RLe(orderQuantity, RInt(0)) \/ RLe(price, RInt(0))
        THEN [none EXCEPT !.type = Fatal]
        ELSE [type |-> "Order", Quantity |-> orderQuantity, Price |-> price,
              tickSize |-> tickSize]


(***************************************************************************)
(* The hedge ledger: table hedged_trades, in insertion order.              *)
(***************************************************************************)
\* a faulty variant: count > 1
IsTradeHedged_MoreThanOne(rows, tradeID) ==
    Cardinality({j \in DOMAIN rows : rows[j].FreqtradeTradeID = tradeID}) > 1

\* SELECT COUNT(*) FROM hedged_trades WHERE freqtrade_trade_id = $1; count > 0
IsTradeHedged(rows, tradeID) ==
    Cardinality({j \in DOMAIN rows : rows[j].FreqtradeTradeID = tradeID}) > 0

\* freqtrade_trade_id INTEGER PRIMARY KEY: the INSERT of a second row with
\* the same key is refused
PrimaryKeyViolated(rows, tradeID) ==
    \E j \in DOMAIN rows : rows[j].FreqtradeTradeID = tradeID

\* a faulty variant: the statement reports a failure after the row is stored
SaveHedgedTrade_StoredOnError(rows, hedgedTrade, dbFails) ==
    IF PrimaryKeyViolated(rows, hedgedTrade.FreqtradeTradeID)
    THEN [err |-> TRUE, rows |-> rows]
    ELSE [err |-> dbFails, rows |-> Append(rows, hedgedTrade)]

\* INSERT INTO hedged_trades ...: the error and the rows after the statement
SaveHedgedTrade(rows, hedgedTrade, dbFails) ==
    IF dbFails \/ PrimaryKeyViolated(rows, hedgedTrade.FreqtradeTradeID)
    THEN [err |-> TRUE, rows |-> rows]
    ELSE [err |-> FALSE, rows |-> Append(rows, hedgedTrade)]

(***************************************************************************)
(* State.                                                                  *)
(***************************************************************************)
VARIABLES
    config,     \* HedgeStrategyConfig, fixed at construction
    ledger,     \* rows of hedged_trades
    run,        \* per runner: the position of its pass and the locals of it
    passes,     \* scheduler ticks and operator actions started so far
    orderSeq,   \* order ids the venue has handed out
    buys,       \* per position id: buy orders the venue accepted (history)
    succ,       \* per position id: hedge passes that returned nil (history)
    crashed,    \* the process was ended by a panic in the scheduler
    sortCase,   \* an input of SortTradesByDrawdown and its result (SpecSort)
    sizeCase,   \* a position, a configuration and the venue's answer, and what
                \* hedgeTrade computes of them (SpecSizing)
    overlap,    \* the operator's requests are served while a pass is running
    venue       \* the order ids of the ledger whose sell order the venue has
                \* executed in full

vars ==
    <<config, ledger, run, passes, orderSeq, buys, succ, crashed, sortCase, overlap,
      venue, sizeCase>>

NoSortCase == [trades |-> <<>>, sorted |-> <<>>, done |-> FALSE]

NoSizeCase == [pc |-> "none"]

NoSizing ==
    [ID |-> 0, balanceKnown |-> FALSE, balanceShort |-> FALSE,
     belowVenueMinAmt |-> FALSE, belowMinAmt |-> FALSE, belowMinQty |-> FALSE,
     type |-> NULL]

\* no sell order accepted
NoSale == [Quantity |-> NilPrice, Price |-> NilPrice, OrderID |-> 0]

IdleRun ==
    [pc |-> "idle",
     \* locals of ExecuteHedgeStrategy / findAndHedgeTrade / hedgeTrade
     trades |-> <<>>, i |-> 0, lastError |-> NULL,
     buyOrder |-> [Quantity |-> NilPrice, Price |-> NilPrice],
     tickSize |-> NilPrice, attempt |-> 0,
     actualQuantity |-> NilPrice, takeProfitPrice |-> NilPrice, sellOrderID |-> 0,
     \* locals of CheckAllActiveOrders
     activeTrades |-> <<>>, k |-> 0, updatedCount |-> 0,
     \* history of the current (or last) hedge pass of this runner
     result |-> NoPass, filtered |-> FALSE, offered |-> {}, hedgedAtStart |-> {},
     attempted |-> <<>>, buySubmits |-> 0,
     exchangeCalled |-> FALSE, ledgerWrites |-> 0, sizing |-> NoSizing,
     \* history of the latest step of the pass, when it was a sizing step:
     \* whether GetInstrumentInfo gave usable minimums
     constraints |-> NULL, infoFailed |-> FALSE,
     \* history of the sell leg and of the wait for the fill of the buy order:
     \* what the polls reported, whether line 369 was reached, the calls of
     \* PlaceOrder for the sell order and the sell order the venue accepted
     wait |-> NULL, sellLeg |-> FALSE, sellSubmits |-> 0, sold |-> NoSale,
     \* history of the current (or last) reconciliation pass of this runner:
     \* how GetHedgedTrades ended once the pass has returned, and the order
     \* ids GetOrderStatus was called for
     \* and those whose fetch and update both succeeded
     reconciled |-> NULL, examined |-> {}, synced |-> {},
     \* the answer of GetOrderStatus that checkSingleOrderStatus holds
     statusInfo |-> [err |-> FALSE,
                     info |-> [Status |-> OrderStatusUnknown, FilledPrice |-> NilPrice,
                               FilledTime |-> NilTime]],
     \* the order ids GetHedgedTrades returned, those whose fetch failed and
     \* the <<order id, status>> the venue answered
     listed |-> {}, fetchFailed |-> {}, answers |-> {},
     \* whether the context of the pass has been cancelled, and history: the
     \* calls of the hedge pass that returned the error of the cancelled context
     cancelled |-> FALSE, aborted |-> {},
     \* history: the positions whose attempt the candidate loop skipped
     rejected |-> {},
     \* history of the sell leg: FilledQty of the filled buy order and the
     \* balance of the base asset GetBalance returned (nil when it failed)
     filledQty |-> NilPrice, available |-> NilPrice]

\* the state after construction: the configuration is one of cfgs, requests
\* of the operator overlap running passes iff o
InitState(cfgs, o, sortCases) ==
    /\ config \in cfgs
    /\ ledger = <<>>
    /\ run = [r \in Runners |-> IdleRun]
    /\ passes = 0
    /\ orderSeq = 0
    /\ buys = [id \in TradeIDs |-> 0]
    /\ succ = [id \in TradeIDs |-> 0]
    /\ crashed = FALSE
    /\ sortCase \in sortCases
    /\ sizeCase = NoSizeCase
    /\ overlap = o
    /\ venue = {}

Init == InitState(Configs, FALSE, {NoSortCase})

Now == passes

\* the locals of a pass that has returned
Returned(st, res) ==
    [st EXCEPT !.pc = "idle", !.result = res,
               !.i = 0, !.lastError = NULL, !.buyOrder = IdleRun.buyOrder,
               !.tickSize = NilPrice, !.attempt = 0, !.actualQuantity = NilPrice,
               !.takeProfitPrice = NilPrice, !.sellOrderID = 0]

\* Start, lines 36-44: the context of the scheduler is the one context of all
\* its ticks: a tick that starts after the stop signal runs with the cancelled
\* context; every request of the operator has a context of its own
\* (handleAPIExecute, line 172)
StopSignalled(r, st) == r = "scheduler" /\ st.cancelled

\* the locals and the history of runner r before a pass
FreshRun(r) == [IdleRun EXCEPT !.cancelled = StopSignalled(r, run[r])]

\* runner r starts a pass with the locals st; the outcome of the last pass of
\* a runner is kept until the next pass of any runner starts
Begin(r, st) ==
    [o \in Runners |->
        IF o = r THEN st
        ELSE IF run[o].pc = "idle"
        THEN FreshRun(o)
        ELSE run[o]]

\* no other runner is inside a pass
Quiet(r) == \A o \in Runners \ {r} : run[o].pc = "idle"

\* runner r may take a step: the scheduler runs its passes to completion,
\* the web server serves a request of the operator in a goroutine of its own
Turn(r) == overlap \/ Quiet(r)

\* a hedge pass of runner r returns res
ReturnHedge(r, st, res) ==
    /\ run' = [run EXCEPT ![r] = Returned(st, res)]
    /\ crashed' = (crashed \/ (res = Panic /\ r = "scheduler"))

(***************************************************************************)
(* ExecuteHedgeStrategy, lines 56-85: GetActiveTrades, filterUnhedgedTrades *)
(* and SortTradesByDrawdown.  The scheduler calls it from executeStrategy   *)
(* after CheckAllActiveOrders, the operator from handleAPIExecute.          *)
(***************************************************************************)
\* a faulty variant: nothing is filtered out
filterUnhedgedTrades_Unfiltered(rows, trades) == trades

filterUnhedgedTrades(rows, trades) ==
    SelectSeq(trades, LAMBDA t : ~IsTradeHedged(rows, t.ID))

HedgedIDs(rows) == {rows[j].FreqtradeTradeID : j \in DOMAIN rows}

\* a faulty variant: the hedge pass does not wait for the reconciliation pass
AfterReconciliation_OrDuring(pc) == pc \in {"execute", "checkOrders"}

\* executeStrategy, lines 54-60: the hedge pass of a tick is called when
\* CheckAllActiveOrders has returned
AfterReconciliation(pc) == pc = "execute"

ExecuteHedgeStrategy(r) ==
    /\ ~crashed
    /\ Turn(r)
    /\ \/ r = "operator" /\ run[r].pc = "idle" /\ passes < MaxPasses
          /\ passes' = passes + 1
       \/ r = "scheduler" /\ AfterReconciliation(run[r].pc) /\ passes' = passes
    /\ \E snapshot \in TradeSnapshots, sourceFails \in BOOLEAN, dbFails \in BOOLEAN :
        LET fresh == [FreshRun(r) EXCEPT !.result = Running,
                                     !.activeTrades = run[r].activeTrades,
                                     !.updatedCount = run[r].updatedCount]
            unhedgedTrades == filterUnhedgedTrades(ledger, snapshot)
            started == [fresh EXCEPT !.filtered = TRUE,
                                     !.offered = {snapshot[j].ID : j \in DOMAIN snapshot},
                                     !.hedgedAtStart = HedgedIDs(ledger),
                                     !.trades = SortTradesByDrawdown(unhedgedTrades)]
        IN  /\ sourceFails => snapshot = <<>> /\ ~dbFails
            \* FetchTrades builds its request with the context of the pass
            /\ StopSignalled(r, run[r]) => sourceFails
            /\ dbFails => snapshot # <<>>
            /\ run' = Begin(r,
                    IF sourceFails \/ dbFails THEN Returned(fresh, Fatal)
                    ELSE IF Len(unhedgedTrades) = 0
                    THEN Returned(started, ErrorTypeNoTrades)
                    ELSE [started EXCEPT !.pc = "findAndHedgeTrade", !.i = 1])
    /\ UNCHANGED <<sizeCase, sortCase, overlap, venue, config, ledger, orderSeq, buys, succ, crashed>>

(***************************************************************************)
(* findAndHedgeTrade, lines 114-162: the head of the loop over the sorted  *)
(* candidates and the return after the loop.                               *)
(***************************************************************************)
\* a faulty variant: the end of the loop reports that there are no positions
AfterLoop_NoTrades(lastError) ==
    IF lastError # NULL THEN lastError ELSE ErrorTypeNoTrades

\* a faulty variant: the error of the skipped candidates is dropped
AfterLoop_Swallowed(lastError) == ErrorTypeNoLossyTrades

\* lines 153-161: the error returned when the loop ends
AfterLoop(lastError) ==
    IF lastError # NULL THEN lastError ELSE ErrorTypeNoLossyTrades

FindAndHedgeTrade(r) ==
    LET st == run[r] IN
    /\ ~crashed
    /\ Turn(r)
    /\ st.pc = "findAndHedgeTrade"
    /\ IF st.i > Len(st.trades)
       THEN ReturnHedge(r, st, AfterLoop(st.lastError))
       ELSE IF ~ShouldBeHedged(st.trades[st.i], config.MaxLossPercent)
       THEN /\ run' = [run EXCEPT ![r] = [st EXCEPT !.i = st.i + 1,
                                                    !.constraints = NULL, !.infoFailed = FALSE]]
            /\ UNCHANGED crashed
       ELSE /\ run' = [run EXCEPT ![r] =
                        [st EXCEPT !.pc = "hedgeTrade", !.constraints = NULL, !.infoFailed = FALSE,
                                   !.attempted = Append(st.attempted, st.trades[st.i])]]
            /\ UNCHANGED crashed
    /\ UNCHANGED <<sizeCase, sortCase, overlap, venue, config, ledger, passes, orderSeq, buys, succ>>


(***************************************************************************)
(* findAndHedgeTrade, lines 131-151: what the loop does with the error     *)
(* hedgeTrade returned.                                                    *)
(***************************************************************************)
\* faulty variants: every error is skipped; no error is skipped
IsSkippable_All(type) == TRUE

IsSkippable_None(type) == FALSE

IsSkippable(type) == type = ErrorTypeInsufficientBalanceForMinLimit

AfterHedgeTrade(r, st, type) ==
    IF IsSkippable(type)
    THEN /\ run' = [run EXCEPT ![r] =
                [st EXCEPT !.pc = "findAndHedgeTrade", !.lastError = type,
                           !.i = st.i + 1,
                           !.rejected = st.rejected \cup {st.trades[st.i].ID}]]
         /\ UNCHANGED crashed
    ELSE ReturnHedge(r, st, type)

(***************************************************************************)
(* The facts of a sizing attempt, as the claims word them.                 *)
(***************************************************************************)
RequiredBuyNotional(cfg) == Rat(cfg.PositionAmount * 101, 100)

EffectiveMinOrderAmt(info, infoErr) ==
    IF infoErr \/ info.MinOrderAmt.n <= 0 THEN RInt(100) ELSE info.MinOrderAmt

EffectiveMinOrderQty(info, infoErr) ==
    IF infoErr \/ info.MinOrderQty.n <= 0 THEN Rat(1, 1000) ELSE info.MinOrderQty

StepRoundedQuantity(cfg, trade, info, infoErr) ==
    LET raw == RDiv(RInt(cfg.PositionAmount), trade.CurrentRate)
    IN  IF infoErr \/ info.StepSize.n <= 0 THEN raw
        ELSE RMul(RInt(RRound(RDiv(raw, info.StepSize))), info.StepSize)

\* the minimums of the venue's answer cannot be used: the fetch failed or a
\* minimum is not positive
ConstraintsOf(info, infoErr) ==
    IF infoErr \/ info.MinOrderAmt.n <= 0 \/ info.MinOrderQty.n <= 0
    THEN "defaulted" ELSE "usable"

SizingFacts(cfg, trade, balance, balanceErr, info, infoErr, type) ==
    LET known == ~balanceErr
        short == known /\ RLt(balance, RequiredBuyNotional(cfg))
        sized == known /\ ~short
    IN  [ID |-> trade.ID, balanceKnown |-> known, balanceShort |-> short,
         belowVenueMinAmt |->
            ~infoErr /\ RLt(RInt(cfg.PositionAmount), info.MinOrderAmt),
         belowMinAmt |->
            sized /\ RLt(RInt(cfg.PositionAmount), EffectiveMinOrderAmt(info, infoErr)),
         belowMinQty |->
            sized /\ RLt(StepRoundedQuantity(cfg, trade, info, infoErr),
                         EffectiveMinOrderQty(info, infoErr)),
         type |-> type]

(***************************************************************************)
(* hedgeTrade, lines 165-307: GetBalance, GetInstrumentInfo and the sizing *)
(* of the buy order for the candidate trades[i].                           *)
(***************************************************************************)
\* of the answers of GetBalance and GetInstrumentInfo one each is explored
\* while passes overlap: a balance that covers the order, usable constraints
OverlapBalance == RInt(101)

OverlapInstrumentInfo ==
    [MinOrderAmt |-> RInt(1), MinOrderQty |-> RInt(0),
     StepSize |-> Rat(1, 1000), TickSize |-> Rat(1, 100)]

HedgeTrade(r) ==
    LET st == run[r]
        trade == st.trades[st.i]
    IN
    /\ ~crashed
    /\ Turn(r)
    /\ st.pc = "hedgeTrade"
    /\ \E balance \in Balances, balanceErr \in BOOLEAN,
          info \in InstrumentInfos, infoErr \in BOOLEAN :
        LET out == HedgeTradeSizing(config, trade, balance, balanceErr, info, infoErr)
            st1 == [st EXCEPT !.exchangeCalled = TRUE,
                              !.constraints = ConstraintsOf(info, infoErr),
                              !.infoFailed = (~balanceErr /\ infoErr /\
                                    HasSufficientBalance(balance, RequiredBuyNotional(config))),
                              !.sizing = SizingFacts(config, trade, balance, balanceErr,
                                                     info, infoErr, out.type)]
        IN  /\ st.cancelled => balanceErr
            /\ overlap => /\ ~balanceErr /\ balance = OverlapBalance
                           /\ ~infoErr /\ info = OverlapInstrumentInfo
            /\ IF out.type = "Order"
                 THEN /\ run' = [run EXCEPT ![r] =
                             [st1 EXCEPT !.pc = "placeBuy",
                                         !.buyOrder = [Quantity |-> out.Quantity,
                                                       Price |-> out.Price],
                                         !.tickSize = out.tickSize]]
                      /\ UNCHANGED crashed
                 ELSE AfterHedgeTrade(r, st1, out.type)
    /\ UNCHANGED <<sizeCase, sortCase, overlap, venue, config, ledger, passes, orderSeq, buys, succ>>

(***************************************************************************)
(* hedgeTrade, lines 311-318: PlaceOrder for the buy order.                *)
(***************************************************************************)
\* the answers a call of the gateway may return: the request carries the
\* context of the pass (http.NewRequestWithContext), with a cancelled context
\* client.Do returns the error of the context
Answers(st, answers) == IF st.cancelled THEN {Err} ELSE answers

\* history: the call named op returned the error of the cancelled context
Aborting(st, op) ==
    IF st.cancelled THEN [st EXCEPT !.aborted = st.aborted \cup {op}] ELSE st

PlaceBuy(r) ==
    LET st == run[r]
        trade == st.trades[st.i]
        st1 == Aborting([st EXCEPT !.buySubmits = st.buySubmits + 1,
                                   !.constraints = NULL, !.infoFailed = FALSE], "buy")
    IN
    /\ ~crashed
    /\ Turn(r)
    /\ st.pc = "placeBuy"
    /\ \E buyResult \in Answers(st, PlaceOutcomes) :
        IF buyResult = "Placed"
        THEN /\ run' = [run EXCEPT ![r] = [st1 EXCEPT !.pc = "waitFill", !.attempt = 1]]
             /\ orderSeq' = orderSeq + 1
             /\ buys' = [buys EXCEPT ![trade.ID] = buys[trade.ID] + 1]
             /\ UNCHANGED crashed
        ELSE /\ AfterHedgeTrade(r, st1, Fatal)
             /\ UNCHANGED <<orderSeq, buys>>
    /\ UNCHANGED <<sizeCase, sortCase, overlap, venue, config, ledger, passes, succ>>

(***************************************************************************)
(* hedgeTrade, lines 323-356: one iteration of the wait-for-fill loop and, *)
(* when the loop is left, the read of buyOrderStatus.FilledQty.            *)
(* GetOrderStatus returns a nil status with an error, so a loop that ends  *)
(* with `continue` on the last attempt leaves buyOrderStatus nil and line  *)
(* 353 dereferences it.                                                    *)
(***************************************************************************)
\* a faulty variant: the sell leg is entered with the requested quantity
ActualQuantity_Requested(buyOrder, FilledQty) == buyOrder.Quantity

\* line 353: the quantity the attempt goes on with
ActualQuantity(buyOrder, FilledQty) == FilledQty

\* what the polls of the wait have reported once poll number attempt has
\* answered status with filled percent of the order executed: the first
\* FILLED, CANCELLED or REJECTED answer, or that none of the
\* maxWaitAttempts polls gave one
Reported(wait, attempt, status, filled) ==
    IF wait # NULL THEN wait
    ELSE IF status = OrderStatusFilled
    THEN IF filled = 0 THEN "filledNothing"
         ELSE IF filled < 100 THEN "filledPart" ELSE "filledAll"
    ELSE IF status \in {OrderStatusCancelled, OrderStatusRejected}
    THEN IF filled > 0 THEN "endedPart" ELSE "ended"
    ELSE IF attempt = maxWaitAttempts THEN "unfilled"
    ELSE NULL

\* a faulty variant: the error of a poll is returned
PollErrorEnds_Returned(attempt) == TRUE

\* lines 328-332: the error of GetOrderStatus is logged and the loop goes on
PollErrorEnds(attempt) == FALSE

\* a faulty variant: a fill below the 95% of the log message is refused
FillAccepted_Above95(actualQuantity, orderQuantity) ==
    ~RLt(RDiv(actualQuantity, orderQuantity), Rat(95, 100))

\* lines 353-367: the filled quantity is accepted when it is positive; the
\* fill ratio only chooses the log message
FillAccepted(actualQuantity, orderQuantity) == RLt(RInt(0), actualQuantity)

WaitFill(r) ==
    LET st == run[r] IN
    /\ ~crashed
    /\ Turn(r)
    /\ st.pc = "waitFill"
    /\ \E status \in Answers(st, OrderStatuses \cup {Err}), filled \in FillPercents :
        LET FilledQty == RMul(st.buyOrder.Quantity, Rat(filled, 100))
            actualQuantity == ActualQuantity(st.buyOrder, FilledQty)
            st0 == Aborting([st EXCEPT !.wait = Reported(st.wait, st.attempt,
                                                         status, filled)], "wait")
            next == [st0 EXCEPT !.attempt = st.attempt + 1]
        IN
        \* CumExecQty of an order that is neither FILLED nor CANCELLED is not read
        /\ status \notin {OrderStatusFilled, OrderStatusCancelled} => filled = 0
        \* of the polls of a wait that overlaps another pass the first
        \* MaxOverlapPolls may leave the order open
        /\ (overlap /\ st.attempt >= MaxOverlapPolls) => (status # Err /\ IsCompleted(status))
        /\ IF status = Err
           THEN IF PollErrorEnds(st.attempt)
                THEN AfterHedgeTrade(r, st0, Fatal)
                ELSE IF st.attempt < maxWaitAttempts
                THEN run' = [run EXCEPT ![r] = next] /\ UNCHANGED crashed
                ELSE ReturnHedge(r, st0, Panic)
           ELSE IF status = OrderStatusFilled
           THEN IF ~FillAccepted(actualQuantity, st.buyOrder.Quantity)
                THEN AfterHedgeTrade(r, st0, Fatal)
                ELSE /\ run' = [run EXCEPT ![r] =
                            [st0 EXCEPT !.pc = "sellPrep", !.attempt = 0,
                                        !.sellLeg = TRUE,
                                        !.filledQty = FilledQty,
                                        !.actualQuantity = actualQuantity]]
                     /\ UNCHANGED crashed
           ELSE IF status # OrderStatusPartiallyFilled /\ IsCompleted(status)
           THEN AfterHedgeTrade(r, st0, Fatal)
           ELSE IF st.attempt = maxWaitAttempts
                THEN AfterHedgeTrade(r, st0, Fatal)
                ELSE run' = [run EXCEPT ![r] = next] /\ UNCHANGED crashed
    /\ UNCHANGED <<sizeCase, sortCase, overlap, venue, config, ledger, passes, orderSeq, buys, succ>>


(***************************************************************************)
(* hedgeTrade, lines 369-431: the base-asset balance check, the take-profit *)
(* price and the sell order.                                               *)
(***************************************************************************)
\* Balance.Available of the pair's base asset, in percent of the filled quantity
BaseBalancePercents == {0, 50, 100, 150}

\* a faulty variant: the filled quantity is sold whatever the balance is
SellQuantity_Unclamped(actualQuantity, available) == actualQuantity

\* lines 378-387: the quantity to sell is at most the available balance
SellQuantity(actualQuantity, available) ==
    IF RLt(available, actualQuantity) THEN available ELSE actualQuantity

\* lines 394-413: the take-profit price of the sell order, rounded to the
\* venue's tick; a price that is not positive gives way to CurrentRate * 1.001
SellTakeProfitPrice(trade, profitRatio, tickSize) ==
    LET calculated == CalculateTakeProfitPrice(trade, profitRatio)
        rounded ==
            IF RLt(RInt(0), tickSize) THEN RoundToMultiple(calculated, tickSize)
            ELSE calculated
    IN  IF RLe(rounded, RInt(0))
        THEN RMul(trade.CurrentRate, Rat(1001, 1000))
        ELSE rounded

SellPrep(r) ==
    LET st == run[r]
        trade == st.trades[st.i]
    IN
    /\ ~crashed
    /\ Turn(r)
    /\ st.pc = "sellPrep"
    /\ \E base \in BaseBalancePercents, baseErr \in BOOLEAN :
        LET available == RMul(st.actualQuantity, Rat(base, 100))
            actualQuantity ==
                IF baseErr THEN st.actualQuantity
                ELSE SellQuantity(st.actualQuantity, available)
            takeProfitPrice == SellTakeProfitPrice(trade, config.ProfitRatio, st.tickSize)
            st1 == [st EXCEPT !.available = IF baseErr THEN NilPrice ELSE available]
        IN  /\ baseErr => base = 100
            /\ st.cancelled => baseErr
            /\ overlap => (~baseErr /\ base = 100)
            /\ IF RLe(actualQuantity, RInt(0)) \/ RLe(takeProfitPrice, RInt(0))
               THEN AfterHedgeTrade(r, st1, Fatal)
               ELSE /\ run' = [run EXCEPT ![r] =
                           [st1 EXCEPT !.pc = "placeSell", !.attempt = 1,
                                      !.actualQuantity = actualQuantity,
                                      !.takeProfitPrice = takeProfitPrice]]
                    /\ UNCHANGED crashed
    /\ UNCHANGED <<sizeCase, sortCase, overlap, venue, config, ledger, passes, orderSeq, buys, succ>>

(***************************************************************************)
(* hedgeTrade, lines 433-463: one iteration of the sell retry loop.        *)
(***************************************************************************)
\* a faulty variant: one attempt more than configured
MoreSellAttempts_OneMore(attempt, maxRetries) == attempt <= maxRetries

\* lines 443 and 456: another attempt follows a failed one
MoreSellAttempts(attempt, maxRetries) == attempt < maxRetries

PlaceSell(r) ==
    LET st == run[r]
        maxRetries == config.RetryAttempts
    IN
    /\ ~crashed
    /\ Turn(r)
    /\ st.pc = "placeSell"
    /\ \E sellResult \in Answers(st, PlaceOutcomes) :
        LET st0 == Aborting([st EXCEPT !.sellSubmits = st.sellSubmits + 1], "sell") IN
        IF sellResult = "Placed"
        THEN /\ run' = [run EXCEPT ![r] =
                    [st0 EXCEPT !.pc = "save", !.attempt = 0,
                                !.sellOrderID = orderSeq + 1,
                                !.sold = [Quantity |-> st.actualQuantity,
                                          Price |-> st.takeProfitPrice,
                                          OrderID |-> orderSeq + 1]]]
             /\ orderSeq' = orderSeq + 1
             /\ UNCHANGED crashed
        ELSE /\ IF MoreSellAttempts(st.attempt, maxRetries)
                THEN /\ run' = [run EXCEPT ![r] = [st0 EXCEPT !.attempt = st.attempt + 1]]
                     /\ UNCHANGED crashed
                ELSE AfterHedgeTrade(r, st0, Fatal)
             /\ UNCHANGED orderSeq
    /\ UNCHANGED <<sizeCase, sortCase, overlap, venue, config, ledger, passes, buys, succ>>

(***************************************************************************)
(* hedgeTrade, lines 465-494: the HedgeRecord and SaveHedgedTrade; with    *)
(* findAndHedgeTrade lines 131-136, a nil error ends the pass.             *)
(***************************************************************************)
\* a faulty variant: the record is keyed by the sell order instead of the position
NewHedgedTrade_KeyedByOrder(st, trade, now) ==
    [FreqtradeTradeID |-> st.sellOrderID,
     HedgeTime |-> now,
     BybitOrderID |-> st.sellOrderID,
     FreqtradeProfitRatio |-> trade.ProfitRatio,
     HedgeOpenPrice |-> trade.CurrentRate,
     HedgeAmount |-> st.actualQuantity,
     HedgeTakeProfitPrice |-> st.takeProfitPrice,
     OrderStatus |-> OrderStatusPending,
     LastStatusCheck |-> now,
     ClosePrice |-> NilPrice,
     CloseTime |-> NilTime]

\* a faulty variant: the record carries the quantity of the buy order
NewHedgedTrade_RequestedAmount(st, trade, now) ==
    [FreqtradeTradeID |-> trade.ID,
     HedgeTime |-> now,
     BybitOrderID |-> st.sellOrderID,
     FreqtradeProfitRatio |-> trade.ProfitRatio,
     HedgeOpenPrice |-> trade.CurrentRate,
     HedgeAmount |-> st.buyOrder.Quantity,
     HedgeTakeProfitPrice |-> st.takeProfitPrice,
     OrderStatus |-> OrderStatusPending,
     LastStatusCheck |-> now,
     ClosePrice |-> NilPrice,
     CloseTime |-> NilTime]

NewHedgedTrade(st, trade, now) ==
    [FreqtradeTradeID |-> trade.ID,
     HedgeTime |-> now,
     BybitOrderID |-> st.sellOrderID,
     FreqtradeProfitRatio |-> trade.ProfitRatio,
     HedgeOpenPrice |-> trade.CurrentRate,
     HedgeAmount |-> st.actualQuantity,
     HedgeTakeProfitPrice |-> st.takeProfitPrice,
     OrderStatus |-> OrderStatusPending,
     LastStatusCheck |-> now,
     ClosePrice |-> NilPrice,
     CloseTime |-> NilTime]

Save(r) ==
    LET st == run[r]
        trade == st.trades[st.i]
    IN
    /\ ~crashed
    /\ Turn(r)
    /\ st.pc = "save"
    /\ \E dbFails \in BOOLEAN :
        LET saved == SaveHedgedTrade(ledger, NewHedgedTrade(st, trade, Now), dbFails)
        IN  /\ st.cancelled => dbFails
            /\ IF saved.err
               THEN /\ AfterHedgeTrade(r, st, Fatal)
                    /\ ledger' = saved.rows
                    /\ UNCHANGED succ
               ELSE /\ ledger' = saved.rows
                    /\ succ' = [succ EXCEPT ![trade.ID] = succ[trade.ID] + 1]
                    /\ ReturnHedge(r, [st EXCEPT !.ledgerWrites = st.ledgerWrites + 1],
                                   Success)
    /\ UNCHANGED <<sizeCase, sortCase, overlap, venue, config, passes, orderSeq, buys>>


(***************************************************************************)
(* The ledger operations of the reconciliation pass.                       *)
(***************************************************************************)
RECURSIVE Reverse(_)
Reverse(s) == IF s = <<>> THEN <<>> ELSE Append(Reverse(Tail(s)), Head(s))

\* HedgeRepository.GetHedgedTrades: the rows with the given status, all rows
\* for a nil status; newest first
GetHedgedTrades(rows, status) ==
    Reverse(SelectSeq(rows, LAMBDA t : status = NULL \/ t.OrderStatus = status))

\* UPDATE hedged_trades SET order_status, last_status_check, close_price,
\* close_time WHERE bybit_order_id = $5
\* a faulty variant: the time of the check is written to hedge_time
UpdateHedgedTradeStatus_HedgeTime(rows, orderID, status, closePrice, closeTime, now) ==
    [j \in DOMAIN rows |->
        IF rows[j].BybitOrderID = orderID
        THEN [rows[j] EXCEPT !.OrderStatus = status, !.HedgeTime = now,
                             !.ClosePrice = closePrice, !.CloseTime = closeTime]
        ELSE rows[j]]

UpdateHedgedTradeStatus(rows, orderID, status, closePrice, closeTime, now) ==
    [j \in DOMAIN rows |->
        IF rows[j].BybitOrderID = orderID
        THEN [rows[j] EXCEPT !.OrderStatus = status, !.LastStatusCheck = now,
                             !.ClosePrice = closePrice, !.CloseTime = closeTime]
        ELSE rows[j]]

\* a reconciliation pass of runner r returns: executeStrategy goes on to the
\* hedge pass, handleAPICheckStatus answers the request
ReturnCheck(r, st, listed) ==
    [st EXCEPT !.pc = IF r = "scheduler" THEN "execute" ELSE "idle",
               !.activeTrades = <<>>, !.k = 0,
               !.reconciled = IF listed THEN "done" ELSE "failed"]

(***************************************************************************)
(* CheckAllActiveOrders, lines 32-47: the start of a reconciliation pass,  *)
(* called by executeStrategy at each tick and by handleAPICheckStatus.     *)
(***************************************************************************)
\* a faulty variant: a nil status, which selects every record
pendingStatus_Nil == NULL

\* line 36: the status CheckAllActiveOrders asks the ledger for
pendingStatus == OrderStatusPending

OrderIDsOf(rows) == {rows[j].BybitOrderID : j \in DOMAIN rows}

StartCheckAllActiveOrders(r) ==
    LET st == run[r] IN
    /\ ~crashed
    /\ Turn(r)
    /\ st.pc = "idle"
    /\ \E dbFails \in BOOLEAN :
        LET activeTrades == GetHedgedTrades(ledger, pendingStatus)
        IN  \* the query runs with the context of the pass
            /\ StopSignalled(r, st) => dbFails
            /\ IF dbFails \/ Len(activeTrades) = 0
               THEN run' = Begin(r, ReturnCheck(r, FreshRun(r), ~dbFails))
               ELSE run' = Begin(r, [FreshRun(r) EXCEPT !.pc = "checkOrders",
                                                 !.activeTrades = activeTrades,
                                                 !.k = 1,
                                                 !.listed = OrderIDsOf(activeTrades)])
    /\ UNCHANGED <<sizeCase, sortCase, overlap, venue, config, ledger, orderSeq, buys, succ, crashed>>

\* one of at most MaxPasses passes
CheckAllActiveOrders(r) ==
    /\ passes < MaxPasses
    /\ passes' = passes + 1
    /\ StartCheckAllActiveOrders(r)

\* one of any number of passes; the clock is read up to MaxPasses
RepeatCheckAllActiveOrders(r) ==
    /\ passes' = IF passes < MaxPasses THEN passes + 1 ELSE passes
    /\ StartCheckAllActiveOrders(r)

(***************************************************************************)
(* checkSingleOrderStatus for activeTrades[k], lines 69-120, and the loop  *)
(* of CheckAllActiveOrders around it, lines 51-65.                         *)
(***************************************************************************)
\* OrderStatusInfo of GetOrderStatus: FilledPrice and FilledTime are set
\* only for a FILLED order whose average price is present
StatusInfos(price, now) ==
    {[Status |-> s, FilledPrice |-> p, FilledTime |-> t] :
        s \in OrderStatuses, p \in {NilPrice, price}, t \in {NilTime, now}}

\* a faulty variant: the error of one record ends the loop
LastRecord_OrError(k, n, err) == k = n \/ err

\* lines 51-57: the loop over activeTrades ends after the last record, an
\* error of checkSingleOrderStatus goes on with the next one
LastRecord(k, n, err) == k = n

\* a faulty variant: only a filled order gets a close time
CloseTimeOf_FilledOnly(statusInfo, now) ==
    IF statusInfo.Status = OrderStatusFilled THEN statusInfo.FilledTime ELSE NilTime

\* lines 90-109: closeTime of a changed status: the fill time of a FILLED
\* order, the time of the check for CANCELLED and REJECTED, nil otherwise
CloseTimeOf(statusInfo, now) ==
    IF statusInfo.Status = OrderStatusFilled
    THEN statusInfo.FilledTime
    ELSE IF IsCompleted(statusInfo.Status) THEN now ELSE NilTime

\* a faulty variant: every answer of the venue is taken for a change
StatusChanged_Always(status, persisted) == TRUE

\* line 77: the status of the venue differs from the persisted one
StatusChanged(status, persisted) == status # persisted

\* lines 71-75: what GetOrderStatus can answer for the order of trade
GetOrderStatusAnswers(trade, statusInfo, statusErr) ==
    IF statusErr
    THEN /\ statusInfo.Status = OrderStatusUnknown
         /\ statusInfo.FilledPrice = NilPrice /\ statusInfo.FilledTime = NilTime
    ELSE
    \* the venue answers FILLED for the orders it has executed in full
    /\ statusInfo.Status = OrderStatusFilled <=> trade.BybitOrderID \in venue
    /\ statusInfo.Status # OrderStatusFilled =>
            statusInfo.FilledPrice = NilPrice /\ statusInfo.FilledTime = NilTime

\* lines 71-119 once GetOrderStatus has answered: the comparison with the
\* status of activeTrades[k], the update of the ledger, and the loop of
\* CheckAllActiveOrders going on or ending
CompareAndUpdate(r, st, statusInfo, statusErr, dbFails) ==
    LET trade == st.activeTrades[st.k]
        id == trade.BybitOrderID
        seen(st0, status) ==
            IF statusErr THEN [st0 EXCEPT !.fetchFailed = st.fetchFailed \cup {id}]
            ELSE [st0 EXCEPT !.answers = st.answers \cup {<<id, status>>}]
        done(updated, failed) ==
            LET st1 == [st EXCEPT !.k = st.k + 1,
                                  !.updatedCount = st.updatedCount + updated,
                                  !.examined = st.examined \cup {id},
                                  !.synced = IF failed THEN st.synced
                                             ELSE st.synced \cup {id}]
            IN  IF LastRecord(st.k, Len(st.activeTrades), failed)
                THEN ReturnCheck(r, st1, TRUE) ELSE st1
    IN  IF statusErr
        THEN /\ run' = [run EXCEPT ![r] = seen(done(0, TRUE), statusInfo.Status)]
             /\ UNCHANGED ledger
        ELSE IF ~StatusChanged(statusInfo.Status, trade.OrderStatus)
        THEN /\ run' = [run EXCEPT ![r] = seen(done(0, dbFails), statusInfo.Status)]
             /\ ledger' =
                 IF dbFails THEN ledger
                 ELSE UpdateHedgedTradeStatus(ledger, trade.BybitOrderID,
                         trade.OrderStatus, trade.ClosePrice, trade.CloseTime, Now)
        ELSE LET closePrice ==
                     IF statusInfo.Status = OrderStatusFilled
                     THEN statusInfo.FilledPrice ELSE NilPrice
                 closeTime == CloseTimeOf(statusInfo, Now)
             IN  /\ run' = [run EXCEPT ![r] =
                         seen(done(IF dbFails THEN 0 ELSE 1, dbFails), statusInfo.Status)]
                 /\ ledger' =
                     IF dbFails THEN ledger
                     ELSE UpdateHedgedTradeStatus(ledger, trade.BybitOrderID,
                             statusInfo.Status, closePrice, closeTime, Now)

\* while passes follow one another nothing happens to the ledger between the
\* answer of the venue and the update: the two are one step
CheckSingleOrderStatus(r) ==
    LET st == run[r]
        trade == st.activeTrades[st.k]
    IN
    /\ ~crashed
    /\ Turn(r)
    /\ st.pc = "checkOrders"
    /\ \E statusInfo \in StatusInfos(trade.HedgeTakeProfitPrice, Now),
          statusErr \in BOOLEAN, dbFails \in BOOLEAN :
        /\ statusErr => ~dbFails
        /\ GetOrderStatusAnswers(trade, statusInfo, statusErr)
        /\ CompareAndUpdate(r, st, statusInfo, statusErr, dbFails)
    /\ UNCHANGED <<sizeCase, sortCase, overlap, venue, config, passes, orderSeq, buys, succ, crashed>>

\* the same in two steps, for passes that overlap: the request to the venue
\* (lines 71-75) ...
GetOrderStatus(r) ==
    LET st == run[r]
        trade == st.activeTrades[st.k]
    IN
    /\ ~crashed
    /\ Turn(r)
    /\ st.pc = "checkOrders"
    /\ \E statusInfo \in StatusInfos(trade.HedgeTakeProfitPrice, Now),
          statusErr \in BOOLEAN :
        /\ GetOrderStatusAnswers(trade, statusInfo, statusErr)
        /\ run' = [run EXCEPT ![r] =
                    [st EXCEPT !.pc = "gotStatus",
                               !.statusInfo = [err |-> statusErr, info |-> statusInfo]]]
    /\ UNCHANGED <<sizeCase, sortCase, overlap, venue, config, ledger, passes, orderSeq, buys,
                   succ, crashed>>

\* ... and the rest of checkSingleOrderStatus (lines 77-119)
UpdateAfterStatus(r) ==
    LET st == run[r] IN
    /\ ~crashed
    /\ Turn(r)
    /\ st.pc = "gotStatus"
    /\ \E dbFails \in BOOLEAN :
        /\ st.statusInfo.err => ~dbFails
        /\ CompareAndUpdate(r, [st EXCEPT !.pc = "checkOrders",
                                          !.statusInfo = IdleRun.statusInfo],
                            st.statusInfo.info, st.statusInfo.err, dbFails)
    /\ UNCHANGED <<sizeCase, sortCase, overlap, venue, config, passes, orderSeq, buys, succ, crashed>>

(***************************************************************************)
(* The program: the scheduler and the operator, each running its passes    *)
(* step by step; the steps of the two interleave.                          *)
(***************************************************************************)
(***************************************************************************)
(* The venue executes in full a sell order that rests on it.               *)
(***************************************************************************)
OrderFills ==
    /\ ~crashed
    /\ \E j \in DOMAIN ledger :
        /\ ~IsCompleted(ledger[j].OrderStatus)
        /\ ledger[j].BybitOrderID \notin venue
        /\ venue' = venue \cup {ledger[j].BybitOrderID}
    /\ UNCHANGED <<sizeCase, sortCase, overlap, config, ledger, run, passes, orderSeq, buys, succ,
                   crashed>>

(***************************************************************************)
(* The context of a pass is cancelled while its hedge attempt is in        *)
(* progress: the stop signal of the scheduler (Start, line 38), the        *)
(* request of the operator ends (r.Context() of handleAPIExecute).         *)
(***************************************************************************)
Cancel(r) ==
    LET st == run[r] IN
    /\ ~crashed
    /\ Turn(r)
    \* the signals explored are those that arrive while an order placement
    \* or the wait for the fill is under way; while passes overlap, those that
    \* arrive during a placement
    /\ st.pc \in {"placeBuy", "waitFill", "placeSell"}
    /\ overlap => st.pc \in {"placeBuy", "placeSell"}
    /\ ~st.cancelled
    /\ run' = [run EXCEPT ![r] = [st EXCEPT !.cancelled = TRUE]]
    /\ UNCHANGED <<sizeCase, sortCase, overlap, venue, config, ledger, passes, orderSeq, buys,
                   succ, crashed>>

\* the stop signal is raised between two ticks of the scheduler, after the
\* tick that Start runs at once (line 34)
Signal ==
    LET st == run["scheduler"] IN
    /\ ~crashed
    /\ st.pc = "idle"
    /\ passes >= 1
    /\ ~st.cancelled
    /\ run' = [run EXCEPT !["scheduler"] = [st EXCEPT !.cancelled = TRUE]]
    /\ UNCHANGED <<sizeCase, sortCase, overlap, venue, config, ledger, passes, orderSeq, buys,
                   succ, crashed>>

Step(r) ==
        \/ Cancel(r)
        \/ CheckAllActiveOrders(r)
        \/ CheckSingleOrderStatus(r)
        \/ ExecuteHedgeStrategy(r)
        \/ FindAndHedgeTrade(r)
        \/ HedgeTrade(r)
        \/ PlaceBuy(r)
        \/ WaitFill(r)
        \/ SellPrep(r)
        \/ PlaceSell(r)
        \/ Save(r)

Next == (\E r \in Runners : Step(r)) \/ OrderFills

\* passes run one after another (overlap = FALSE)
Spec == Init /\ [][Next]_vars

(***************************************************************************)
(* SortTradesByDrawdown on its own: every sequence of up to MaxSortLen      *)
(* positions with distinct ids, and the call of the function on it.         *)
(***************************************************************************)
SortTrades ==
    {[ID |-> id, ProfitRatio |-> p, CurrentRate |-> RInt(CurrentRateOf(id))] :
        id \in 1..MaxSortLen, p \in ProfitRatios}

SortInputs ==
    {s \in UNION {[1..n -> SortTrades] : n \in 0..MaxSortLen} : DistinctIDs(s)}

InitSort ==
    InitState({c \in Configs : c.PositionAmount = 100 /\ c.MaxLossPercent = 3}, FALSE,
              {[trades |-> t, sorted |-> <<>>, done |-> FALSE] : t \in SortInputs})

CallSortTradesByDrawdown ==
    /\ ~sortCase.done
    /\ sortCase' = [sortCase EXCEPT !.sorted = SortTradesByDrawdown(sortCase.trades),
                                    !.done = TRUE]
    /\ UNCHANGED <<sizeCase, overlap, venue, config, ledger, run, passes, orderSeq, buys, succ,
                   crashed>>

NextSort == CallSortTradesByDrawdown

SpecSort == InitSort /\ [][NextSort]_vars

(***************************************************************************)
(* Reconciliation on its own: the ledger holds records as hedgeTrade wrote *)
(* them and the operator asks for one reconciliation pass after another    *)
(* (handleAPICheckStatus) while the venue executes the sell orders.        *)
(***************************************************************************)
\* the record of position id as lines 467-488 write it: the sell order 2*id
\* for 94% of a buy order of 100 USDT
HedgedRow(id) ==
    LET trade == [ID |-> id, ProfitRatio |-> -6, CurrentRate |-> RInt(CurrentRateOf(id))]
        st == [IdleRun EXCEPT
                  !.sellOrderID = 2 * id,
                  !.actualQuantity = Rat(47, CurrentRateOf(id)),
                  !.takeProfitPrice = CalculateTakeProfitPrice(trade, Rat(7, 10))]
    IN  NewHedgedTrade(st, trade, 0)

InitRecon ==
    /\ config \in {c \in Configs : c.PositionAmount = 100 /\ c.MaxLossPercent = 3}
    /\ \E n \in 1..MaxTrades :
        /\ ledger = [j \in 1..n |-> HedgedRow(j)]
        /\ orderSeq = 2 * n
        /\ buys = [id \in TradeIDs |-> IF id <= n THEN 1 ELSE 0]
        /\ succ = [id \in TradeIDs |-> IF id <= n THEN 1 ELSE 0]
    /\ run = [r \in Runners |-> IdleRun]
    /\ passes = 0
    /\ crashed = FALSE
    /\ sortCase = NoSortCase
    /\ sizeCase = NoSizeCase
    /\ overlap = FALSE
    /\ venue = {}

NextRecon ==
    \/ RepeatCheckAllActiveOrders("operator")
    \/ CheckSingleOrderStatus("operator")
    \/ OrderFills

\* the sell orders of the records of InitRecon
SellOrderIDs == {2 * id : id \in TradeIDs}

\* the fetch and the update for order o both succeed
FetchAndUpdateSucceed(o) ==
    /\ CheckSingleOrderStatus("operator")
    /\ o \in run'["operator"].synced \ run["operator"].synced

\* passes are asked for again and again, a pass that has started goes through
\* its records, and the fetch and the update of an order that is examined
\* again and again succeed at some time
SpecRecon ==
    /\ InitRecon
    /\ [][NextRecon]_vars
    /\ WF_vars(RepeatCheckAllActiveOrders("operator"))
    /\ WF_vars(CheckSingleOrderStatus("operator"))
    /\ \A o \in SellOrderIDs : SF_vars(FetchAndUpdateSucceed(o))

\* the passes of the scheduler and of the operator overlap
(***************************************************************************)
(* The scheduler alone: Start, lines 27-45. After the stop signal the      *)
(* select of line 37 takes ctx.Done() or, when the timer is due as well,   *)
(* either of the two ready cases.                                          *)
(***************************************************************************)
InitSched ==
    InitState({c \in Configs : c.PositionAmount = 100 /\ c.MaxLossPercent = 3}, FALSE,
              {NoSortCase})

NextSched ==
    \/ Signal
    \/ CheckAllActiveOrders("scheduler")
    \/ CheckSingleOrderStatus("scheduler")
    \/ ExecuteHedgeStrategy("scheduler")
    \/ FindAndHedgeTrade("scheduler")
    \/ HedgeTrade("scheduler")
    \/ PlaceBuy("scheduler")
    \/ WaitFill("scheduler")
    \/ SellPrep("scheduler")
    \/ PlaceSell("scheduler")
    \/ Save("scheduler")
    \/ OrderFills

SpecSched == InitSched /\ [][NextSched]_vars

InitConc ==
    InitState({c \in Configs : c.PositionAmount = 100 /\ c.MaxLossPercent = 3}, TRUE,
              {NoSortCase})

SpecConc == InitConc /\ [][Next]_vars

(***************************************************************************)
(* Reconciliation passes that overlap: the ledger holds records as         *)
(* hedgeTrade wrote them; the scheduler's tick runs CheckAllActiveOrders   *)
(* (executeStrategy) while a request of the operator runs it as well       *)
(* (handleAPICheckStatus, in a goroutine of the web server).  The request  *)
(* to the venue and the update of the ledger are steps of their own, and   *)
(* the position source has nothing new to hedge.                           *)
(***************************************************************************)
InitReconConc ==
    /\ config \in {c \in Configs : c.PositionAmount = 100 /\ c.MaxLossPercent = 3}
    /\ \E n \in 1..MaxTrades :
        /\ ledger = [j \in 1..n |-> HedgedRow(j)]
        /\ orderSeq = 2 * n
        /\ buys = [id \in TradeIDs |-> IF id <= n THEN 1 ELSE 0]
        /\ succ = [id \in TradeIDs |-> IF id <= n THEN 1 ELSE 0]
    /\ run = [r \in Runners |-> IdleRun]
    /\ passes = 0
    /\ crashed = FALSE
    /\ sortCase = NoSortCase
    /\ sizeCase = NoSizeCase
    /\ overlap = TRUE
    /\ venue = {}

\* the hedge pass of the tick finds no position to hedge and returns
ExecuteWithoutHedge ==
    /\ ExecuteHedgeStrategy("scheduler")
    /\ run'["scheduler"].pc = "idle"

\* the venue answers, and its answer is that the order rests or is executed
RestingOrExecuted(r) ==
    /\ GetOrderStatus(r)
    /\ ~run'[r].statusInfo.err
    /\ run'[r].statusInfo.info.Status \in {OrderStatusPending, OrderStatusFilled}

NextReconConc ==
    \/ \E r \in Runners :
        \/ CheckAllActiveOrders(r)
        \/ RestingOrExecuted(r)
        \/ UpdateAfterStatus(r)
    \/ ExecuteWithoutHedge
    \/ OrderFills

SpecReconConc == InitReconConc /\ [][NextReconConc]_vars

(***************************************************************************)
(* The arithmetic of hedgeTrade on its own: one position, one              *)
(* configuration and one answer of GetInstrumentInfo, over instruments     *)
(* from very cheap to expensive.  The balance suffices, the buy order      *)
(* fills in full and the base balance covers it.  The steps are the ones   *)
(* of hedgeTrade: lines 169-307 size and price the buy order, lines        *)
(* 394-413 price the sell order, lines 465-494 build and save the record.  *)
(***************************************************************************)
CheapRate == Rat(1, 20000)

\* <<CurrentRate, StepSize, TickSize>>; 0 stands for a step the venue did not give
SizeQuotes ==
    {<<CheapRate, st, t>> :
        st \in {RInt(0), RInt(1)}, t \in {RInt(0), Rat(1, 100000), Rat(1, 100)}}
    \cup {<<p, st, t>> :
            p \in {RInt(2), RInt(7)},
            st \in {RInt(0), Rat(1, 1000), RInt(1)},
            t \in {RInt(0), Rat(1, 100), RInt(5)}}
    \cup {<<p, st, t>> :
            p \in {RInt(50000), RInt(60000)},
            st \in {RInt(0), Rat(1, 1000)},
            t \in {RInt(0), Rat(1, 100), RInt(5)}}

SizeConfigs ==
    {[PositionAmount |-> a, MaxLossPercent |-> 3, ProfitRatio |-> pr, RetryAttempts |-> 2] :
        a \in {3, 100}, pr \in {Rat(1, 100), Rat(7, 10), Rat(25, 4)}}

SizeInputs ==
    {c \in [cfg : SizeConfigs,
            quote : SizeQuotes,
            ProfitRatio : {p \in ProfitRatios : p < -3},
            MinOrderAmt : {RInt(0), RInt(1)},
            MinOrderQty : {RInt(0), Rat(1, 100)}] :
        (c.quote[1] = CheapRate) <=> (c.cfg.ProfitRatio = Rat(25, 4))}

NoOrder ==
    [type |-> NULL, Quantity |-> NilPrice, Price |-> NilPrice, tickSize |-> NilPrice]

InitSizing ==
    /\ ledger = <<>>
    /\ run = [r \in Runners |-> IdleRun]
    /\ passes = 0
    /\ orderSeq = 0
    /\ buys = [id \in TradeIDs |-> 0]
    /\ succ = [id \in TradeIDs |-> 0]
    /\ crashed = FALSE
    /\ sortCase = NoSortCase
    /\ overlap = FALSE
    /\ venue = {}
    /\ \E c \in SizeInputs :
        /\ config = c.cfg
        /\ sizeCase =
            [pc |-> "sizing",
             trade |-> [ID |-> 1, ProfitRatio |-> c.ProfitRatio, CurrentRate |-> c.quote[1]],
             info |-> [MinOrderAmt |-> c.MinOrderAmt, MinOrderQty |-> c.MinOrderQty,
                       StepSize |-> c.quote[2], TickSize |-> c.quote[3]],
             requiredAmount |-> NilPrice, buyOrder |-> NoOrder,
             takeProfitPrice |-> NilPrice]

\* lines 169-307: the balance is exactly the required amount
SizeBuyOrder ==
    /\ sizeCase.pc = "sizing"
    /\ LET requiredAmount == RequiredBuyNotional(config)
           sized == HedgeTradeSizing(config, sizeCase.trade, requiredAmount, FALSE,
                                     sizeCase.info, FALSE)
       IN  sizeCase' = [sizeCase EXCEPT
                           !.pc = IF sized.type = "Order" THEN "sellPrep" ELSE "returned",
                           !.requiredAmount = requiredAmount,
                           !.buyOrder = sized]
    /\ UNCHANGED <<sortCase, overlap, venue, config, ledger, run, passes, orderSeq, buys,
                   succ, crashed>>

\* lines 394-413
PriceSellOrder ==
    /\ sizeCase.pc = "sellPrep"
    /\ sizeCase' = [sizeCase EXCEPT
                       !.pc = "save",
                       !.takeProfitPrice =
                           SellTakeProfitPrice(sizeCase.trade, config.ProfitRatio,
                                               sizeCase.buyOrder.tickSize)]
    /\ UNCHANGED <<sortCase, overlap, venue, config, ledger, run, passes, orderSeq, buys,
                   succ, crashed>>

\* lines 465-494
SaveSizedHedge ==
    /\ sizeCase.pc = "save"
    /\ LET st == [IdleRun EXCEPT !.sellOrderID = 2,
                                 !.actualQuantity = sizeCase.buyOrder.Quantity,
                                 !.takeProfitPrice = sizeCase.takeProfitPrice]
           saved == SaveHedgedTrade(ledger, NewHedgedTrade(st, sizeCase.trade, Now), FALSE)
       IN  ledger' = saved.rows
    /\ sizeCase' = [sizeCase EXCEPT !.pc = "returned"]
    /\ UNCHANGED <<sortCase, overlap, venue, config, run, passes, orderSeq, buys, succ,
                   crashed>>

NextSizing == SizeBuyOrder \/ PriceSellOrder \/ SaveSizedHedge

SpecSizing == InitSizing /\ [][NextSizing]_vars

(***************************************************************************)
(* Properties.  They are stated over the ledger, the venue-side history    *)
(* (buys, succ) and the history each runner keeps of its current or last   *)
(* hedge pass.                                                             *)
(***************************************************************************)
IDsOf(s) == {s[j].ID : j \in DOMAIN s}

\* the ledger rows keyed by position id
RowsOf(id) == {j \in DOMAIN ledger : ledger[j].FreqtradeTradeID = id}

\* profitRatio < -(T/100), with the ratio in hundredths
Eligible(t) == t.ProfitRatio < -(config.MaxLossPercent)

\* the place of position id in the sequence s (0: not in it)
PosOf(s, id) ==
    IF \E j \in DOMAIN s : s[j].ID = id
    THEN CHOOSE j \in DOMAIN s : s[j].ID = id ELSE 0

\* C1: after any sequence of hedge and reconciliation passes, each position
\* id is the source id of at most one HedgeRecord of the ledger: every row is
\* keyed by a position, no two rows share a key, and the rows keyed by a
\* position are those written on its behalf.
C1_OneRecordPerPosition ==
    /\ \A j \in DOMAIN ledger : ledger[j].FreqtradeTradeID \in TradeIDs
    /\ \A id \in TradeIDs :
        /\ Cardinality(RowsOf(id)) <= 1
        /\ Cardinality(RowsOf(id)) = succ[id]

\* a hedge pass that was offered an already hedged position has returned
C1_Witness ==
    \E r \in Runners :
        /\ run[r].pc = "idle" /\ run[r].result \notin {NoPass, Running}
        /\ run[r].offered \cap run[r].hedgedAtStart # {}
        /\ \A id \in run[r].hedgedAtStart : Cardinality(RowsOf(id)) = 1

\* C2 as stated: over any sequence of hedge passes and any outcomes of the
\* gateway and ledger calls, the venue accepts at most one hedge buy order
\* per position id.
C2_AtMostOneBuyPerPosition == \A id \in TradeIDs : buys[id] <= 1

\* C2 amended: over any sequence of hedge passes run one after another, once
\* a HedgeRecord exists for a position id the venue accepts no further hedge
\* buy order for it.
C2_NoBuyAfterRecord ==
    [][\A id \in TradeIDs : RowsOf(id) # {} => buys'[id] = buys[id]]_vars

\* a pass that started after a position was recorded has submitted a buy order
C2_Witness ==
    \E r \in Runners :
        /\ run[r].hedgedAtStart # {}
        /\ run[r].buySubmits = 1
        /\ \A id \in run[r].hedgedAtStart : RowsOf(id) # {} /\ buys[id] >= 1

\* C3: once a HedgeRecord exists for position id X, no later hedge pass
\* selects X: X is not among the filtered candidates, none of the attempts
\* (balance check, sizing, orders, ledger write) is made for X.
C3_HedgedNeverSelected ==
    \A r \in Runners :
        LET st == run[r] IN
        /\ IDsOf(st.trades) \cap st.hedgedAtStart = {}
        /\ IDsOf(st.attempted) \cap st.hedgedAtStart = {}
        /\ st.sizing.ID \notin st.hedgedAtStart
        /\ st.pc \in {"hedgeTrade", "placeBuy", "waitFill", "sellPrep", "placeSell", "save"}
            => st.trades[st.i].ID \notin st.hedgedAtStart

\* a pass that was offered a hedged position X and an unhedged one has sized
\* an order for the unhedged one
C3_Witness ==
    \E r \in Runners :
        /\ run[r].offered \cap run[r].hedgedAtStart # {}
        /\ run[r].sizing.ID \in run[r].offered \ run[r].hedgedAtStart

\* C4: the candidates a hedge pass attempts are unhedged positions with
\* profitRatio < -(T/100) (equality is not eligible), and they are attempted
\* in non-decreasing profitRatio order.
C4_AttemptsEligibleInOrder ==
    \A r \in Runners :
        LET a == run[r].attempted IN
        /\ \A j \in DOMAIN a :
            /\ Eligible(a[j])
            /\ \E k \in DOMAIN run[r].trades : run[r].trades[k] = a[j]
        /\ \A j, k \in DOMAIN a : j < k => a[j].ProfitRatio <= a[k].ProfitRatio

\* a pass has attempted a candidate, has passed over a position whose
\* profitRatio equals the threshold, and has returned
C4_Witness ==
    \E r \in Runners :
        /\ run[r].pc = "idle" /\ run[r].result = ErrorTypeInsufficientBalanceForMinLimit
        /\ Len(run[r].attempted) = 1
        /\ \E k \in DOMAIN run[r].trades :
            run[r].trades[k].ProfitRatio = -(config.MaxLossPercent)

\* C5: SortTradesByDrawdown is stable: positions with equal profitRatio keep
\* their input order.
C5_StableForTies ==
    sortCase.done =>
        \A j, k \in DOMAIN sortCase.sorted :
            (j < k /\ sortCase.sorted[j].ProfitRatio = sortCase.sorted[k].ProfitRatio)
                => PosOf(sortCase.trades, sortCase.sorted[j].ID)
                    < PosOf(sortCase.trades, sortCase.sorted[k].ID)

\* C6: with no open unhedged position the hedge pass returns NoTrades, with
\* unhedged positions none of which has profitRatio < -(T/100) it returns
\* NoLossyTrades; the two are distinct expected outcomes, and in both cases
\* no exchange call was made and the ledger was not written.
C6_BenignOutcomes ==
    /\ ErrorTypeNoTrades # ErrorTypeNoLossyTrades
    /\ IsExpected(ErrorTypeNoTrades) /\ IsExpected(ErrorTypeNoLossyTrades)
    /\ \A r \in Runners :
        LET st == run[r]
            noneEligible == \A k \in DOMAIN st.trades : ~Eligible(st.trades[k])
        IN  /\ (st.filtered /\ st.offered \subseteq st.hedgedAtStart)
                => /\ st.pc = "idle" /\ st.result = ErrorTypeNoTrades
                   /\ ~st.exchangeCalled /\ st.ledgerWrites = 0
                   /\ HedgedIDs(ledger) = st.hedgedAtStart
            /\ (st.filtered /\ ~(st.offered \subseteq st.hedgedAtStart) /\ noneEligible)
                => /\ st.result \in {Running, ErrorTypeNoLossyTrades}
                   /\ st.pc = "idle" => st.result = ErrorTypeNoLossyTrades
                   /\ ~st.exchangeCalled /\ st.ledgerWrites = 0
                   /\ HedgedIDs(ledger) = st.hedgedAtStart
            /\ st.result = ErrorTypeNoTrades
                => st.filtered /\ st.offered \subseteq st.hedgedAtStart
            /\ st.result = ErrorTypeNoLossyTrades
                => st.filtered /\ st.trades # <<>> /\ noneEligible

\* a pass over unhedged positions none of which qualifies has returned
C6_Witness ==
    \E r \in Runners :
        /\ run[r].result = ErrorTypeNoLossyTrades
        /\ Len(run[r].trades) = 2
        /\ run[r].hedgedAtStart = {}

\* C7: in a hedge pass at most one buy order is submitted to the venue; the
\* pass returns at the first success and at the first fatal condition, no
\* further candidate is attempted after either.
C7_OneBuyPerPass ==
    \A r \in Runners :
        LET st == run[r] IN
        /\ st.buySubmits <= 1
        /\ st.lastError \in {NULL, ErrorTypeInsufficientBalanceForMinLimit}
        /\ st.buySubmits = 1 =>
            /\ st.pc \in {"waitFill", "sellPrep", "placeSell", "save", "idle"}
            /\ st.attempted[Len(st.attempted)].ID = st.sizing.ID
            /\ st.sizing.type = "Order"
            /\ st.pc = "idle" => st.result \in {Success, Fatal, Panic}
        /\ st.result = Success => st.buySubmits = 1 /\ st.ledgerWrites = 1
        /\ st.result \in {Success, Fatal, Panic} => st.pc = "idle"

\* a pass has returned a fatal error after its buy order while a less severe
\* eligible candidate was left unattempted
C7_Witness ==
    \E r \in Runners :
        LET st == run[r] IN
        /\ st.result = Fatal /\ st.buySubmits = 1
        /\ Len(st.trades) = 2 /\ Len(st.attempted) = 1
        /\ Eligible(st.trades[2])

\* C8: when the available balance is below positionAmount * 1.01 at the
\* attempt of a candidate, the pass returns InsufficientBalance at once: no
\* order is placed and no further candidate is attempted.
C8_BalanceShortfallAborts ==
    \A r \in Runners :
        LET st == run[r] IN
        st.sizing.balanceShort =>
            /\ st.sizing.type = ErrorTypeInsufficientBalance
            /\ st.pc = "idle" /\ st.result = ErrorTypeInsufficientBalance
            /\ st.buySubmits = 0 /\ st.ledgerWrites = 0
            /\ st.attempted[Len(st.attempted)].ID = st.sizing.ID

\* a pass has returned InsufficientBalance at its most severe candidate while
\* a less severe eligible candidate was left unattempted
C8_Witness ==
    \E r \in Runners :
        LET st == run[r] IN
        /\ st.sizing.balanceShort /\ st.result = ErrorTypeInsufficientBalance
        /\ Len(st.trades) = 2 /\ Len(st.attempted) = 1
        /\ Eligible(st.trades[2])

\* the first eligible candidate after place j of the sorted candidates s
\* (0: none)
NextEligibleAfter(s, j) ==
    IF \E k \in DOMAIN s : k > j /\ Eligible(s[k])
    THEN CHOOSE k \in DOMAIN s :
            /\ k > j /\ Eligible(s[k])
            /\ \A m \in DOMAIN s : (m > j /\ Eligible(s[m])) => k <= m
    ELSE 0

\* C9: when the sizing of a candidate finds the step-rounded quantity below
\* the effective MinOrderQty or positionAmount below the effective
\* MinOrderAmt, no order is placed for the candidate and the pass goes on: it
\* attempts the next eligible candidate in severity order, and returns the
\* rejection only when there is none.
C9_MinLimitSkips ==
    \A r \in Runners :
        LET st == run[r]
            at == PosOf(st.trades, st.sizing.ID)
            nxt == NextEligibleAfter(st.trades, at)
        IN  (st.sizing.belowMinAmt \/ st.sizing.belowMinQty) =>
            /\ st.sizing.type = ErrorTypeInsufficientBalanceForMinLimit
            /\ st.buySubmits = 0 /\ st.ledgerWrites = 0
            /\ \/ /\ st.pc = "findAndHedgeTrade"
                  /\ st.i > at /\ (nxt # 0 => st.i <= nxt)
               \/ /\ st.pc = "hedgeTrade"
                  /\ nxt # 0 /\ st.i = nxt
                  /\ st.attempted[Len(st.attempted)] = st.trades[nxt]
               \/ /\ st.pc = "idle" /\ nxt = 0
                  /\ st.result = ErrorTypeInsufficientBalanceForMinLimit

\* after a candidate was rejected for a quantity below the minimum, the pass
\* is attempting the next candidate
C9_Witness ==
    \E r \in Runners :
        LET st == run[r] IN
        /\ st.sizing.belowMinQty /\ ~st.sizing.belowMinAmt
        /\ st.pc = "hedgeTrade" /\ Len(st.attempted) = 2

\* C10 as stated: whenever positionAmount is below the instrument's
\* MinOrderAmt the attempt yields InsufficientBalanceForMinLimit, for every
\* available balance.
C10_MinLimitForEveryBalance ==
    \A r \in Runners :
        run[r].sizing.belowVenueMinAmt
            => run[r].sizing.type = ErrorTypeInsufficientBalanceForMinLimit

\* C10 amended: whenever positionAmount is below the instrument's MinOrderAmt
\* and the balance was fetched and is at least positionAmount * 1.01, the
\* attempt yields InsufficientBalanceForMinLimit; with a smaller balance it
\* yields InsufficientBalance.
C10_MinLimitWhenBalanceSuffices ==
    \A r \in Runners :
        LET z == run[r].sizing IN
        z.belowVenueMinAmt =>
            /\ (z.balanceKnown /\ ~z.balanceShort)
                => z.type = ErrorTypeInsufficientBalanceForMinLimit
            /\ z.balanceShort => z.type = ErrorTypeInsufficientBalance

\* positionAmount 3 was sized against a MinOrderAmt of 5 with enough balance
C10_Witness ==
    \E r \in Runners :
        LET z == run[r].sizing IN
        /\ config.PositionAmount = 3
        /\ z.belowVenueMinAmt /\ z.balanceKnown /\ ~z.balanceShort
        /\ z.type = ErrorTypeInsufficientBalanceForMinLimit

\* C11: when the fetch of the instrument constraints fails, or gives a
\* minimum notional or a minimum quantity that is not positive, the attempt
\* does not fail for that: the candidate is sized against a minimum notional
\* of 100 and a minimum quantity of 0.001 in place of the unusable values,
\* and is either given an order or rejected as skippable.
C11_DefaultsForUnusableConstraints ==
    \A r \in Runners :
        LET st == run[r]
            z == st.sizing
        IN  (st.constraints = "defaulted" /\ z.balanceKnown /\ ~z.balanceShort) =>
            /\ z.type \in {"Order", ErrorTypeInsufficientBalanceForMinLimit}
            /\ z.type = ErrorTypeInsufficientBalanceForMinLimit
                <=> (z.belowMinAmt \/ z.belowMinQty)
            /\ z.type = "Order" => st.pc = "placeBuy"
            /\ z.type # "Order" => IsExpected(z.type) /\ st.result # Fatal

\* a candidate was given an order although the constraints were unusable
C11_Witness ==
    \E r \in Runners :
        /\ run[r].constraints = "defaulted"
        /\ run[r].sizing.type = "Order" /\ run[r].pc = "placeBuy"


(***************************************************************************)
(* C12: when the buy order was placed and none of the maxWaitAttempts      *)
(* polls reports FILLED -- each of them, the last one included, reports    *)
(* PENDING, PARTIALLY_FILLED or UNKNOWN or fails with a transport error -- *)
(* the attempt returns the fill-timeout error: there are at most           *)
(* maxWaitAttempts polls, no sell order is placed and no record written.   *)
(* The code panics instead when the last poll fails.                       *)
(***************************************************************************)
C12_FillTimeoutAfterAllPolls ==
    \A r \in Runners :
        LET st == run[r] IN
        /\ st.pc = "waitFill" => st.attempt \in 1..maxWaitAttempts
        /\ st.wait = "unfilled" =>
            /\ st.pc = "idle" /\ st.result = Fatal
            /\ st.sellSubmits = 0 /\ st.ledgerWrites = 0

(***************************************************************************)
(* C13: the wait stops at the first poll that reports a terminal status.   *)
(* No poll follows a FILLED, CANCELLED or REJECTED answer; after FILLED    *)
(* (with a positive executed quantity) the attempt is in the sell leg;     *)
(* after CANCELLED or REJECTED the pass has returned a fatal error without *)
(* a sell order and without a ledger write.                                *)
(***************************************************************************)
C13_PollingStopsAtTerminalStatus ==
    \A r \in Runners :
        LET st == run[r] IN
        /\ st.pc = "waitFill" => st.wait = NULL
        /\ st.wait \in {"filledPart", "filledAll"} => st.sellLeg
        /\ st.wait \in {"ended", "endedPart"} =>
            /\ st.pc = "idle" /\ st.result = Fatal
            /\ ~st.sellLeg /\ st.sellSubmits = 0 /\ st.ledgerWrites = 0

\* a poll answered CANCELLED or REJECTED and the pass returned
C13_Witness ==
    \E r \in Runners :
        /\ run[r].wait = "ended" /\ run[r].result = Fatal
        /\ run[r].buySubmits = 1 /\ run[r].sellSubmits = 0

(***************************************************************************)
(* C14: a buy order that ends in a terminal status having executed only a  *)
(* part (more than nothing) of the requested quantity does not fail the    *)
(* attempt: the attempt goes on to the sell leg.  As worded this covers an *)
(* order that was CANCELLED after a partial execution, which the code      *)
(* treats as fatal.                                                        *)
(***************************************************************************)
C14_PartialTerminalFillsAccepted ==
    \A r \in Runners :
        run[r].wait \in {"filledPart", "endedPart"} => run[r].sellLeg

\* the quantities a partly executed buy order of st has executed
PartQuantities(st) ==
    {RMul(st.buyOrder.Quantity, Rat(p, 100)) : p \in FillPercents \ {0, 100}}

(***************************************************************************)
(* C14, amended: a buy order reported FILLED with only a part (more than   *)
(* nothing) of the requested quantity executed does not fail the attempt:  *)
(* the attempt enters the sell leg with the executed quantity, and the     *)
(* quantity of the sell order never exceeds it.                            *)
(***************************************************************************)
C14_PartialFilledContinues ==
    \A r \in Runners :
        LET st == run[r] IN
        st.wait = "filledPart" =>
            /\ st.sellLeg
            /\ st.pc = "sellPrep" => st.actualQuantity \in PartQuantities(st)
            /\ st.pc \in {"placeSell", "save"} =>
                \E q \in PartQuantities(st) :
                    RLt(RInt(0), st.actualQuantity) /\ RLe(st.actualQuantity, q)

\* the sell order of a partly executed buy order is about to be placed for
\* exactly the executed quantity
C14_Witness ==
    \E r \in Runners :
        /\ run[r].wait = "filledPart" /\ run[r].pc = "placeSell"
        /\ run[r].actualQuantity \in PartQuantities(run[r])
        /\ RLt(run[r].actualQuantity, run[r].buyOrder.Quantity)

\* the number of buy orders the venue has accepted for the positions ids
RECURSIVE BuysAccepted(_)
BuysAccepted(ids) ==
    IF ids = {} THEN 0
    ELSE LET id == CHOOSE x \in ids : TRUE
         IN  buys[id] + BuysAccepted(ids \ {id})

(***************************************************************************)
(* C15: the sell order is submitted at most RetryAttempts times.  While    *)
(* the retry loop runs no submission has succeeded and attempts remain;    *)
(* the first accepted sell order ends the loop, so every accepted buy      *)
(* order is followed by at most one accepted sell order and a successful   *)
(* pass by exactly one; when every attempt failed the pass has returned a  *)
(* fatal error after exactly RetryAttempts submissions and wrote no        *)
(* record.                                                                 *)
(***************************************************************************)
C15_SellRetryBounded ==
    /\ orderSeq - BuysAccepted(TradeIDs) <= BuysAccepted(TradeIDs)
    /\ \A r \in Runners :
        LET st == run[r] IN
        /\ st.sellSubmits <= config.RetryAttempts
        /\ st.pc = "placeSell" =>
            /\ st.sold = NoSale
            /\ st.sellSubmits = st.attempt - 1
            /\ st.attempt <= config.RetryAttempts
        /\ st.sold # NoSale =>
            /\ st.pc \in {"save", "idle"}
            /\ st.sellSubmits >= 1
        /\ st.result = Success => st.sold # NoSale
        /\ (st.pc = "idle" /\ st.sellSubmits > 0 /\ st.sold = NoSale) =>
            /\ st.result = Fatal
            /\ st.sellSubmits = config.RetryAttempts
            /\ st.ledgerWrites = 0

\* a failed submission was followed by one that the venue accepted
C15_Witness ==
    \E r \in Runners :
        /\ run[r].sellSubmits = 2 /\ run[r].sold # NoSale
        /\ run[r].result = Success

(***************************************************************************)
(* C16: a pass that returned success has written exactly one record, the   *)
(* record of the position it hedged: its status is PENDING, its close      *)
(* price and close time are empty, and it carries the price, the quantity  *)
(* and the order id of the sell order the venue accepted.  A pass whose    *)
(* sell order was accepted and that wrote no record returned an error.     *)
(***************************************************************************)
C16_SuccessMeansOneRecord ==
    \A r \in Runners :
        LET st == run[r] IN
        /\ st.result = Success =>
            /\ st.pc = "idle"
            /\ st.ledgerWrites = 1
            /\ st.sold # NoSale
            /\ st.attempted # <<>>
            /\ LET id == st.attempted[Len(st.attempted)].ID
               IN  /\ Cardinality(RowsOf(id)) = 1
                   /\ \A j \in RowsOf(id) :
                        /\ ledger[j].OrderStatus = OrderStatusPending
                        /\ ledger[j].ClosePrice = NilPrice
                        /\ ledger[j].CloseTime = NilTime
                        /\ ledger[j].HedgeTakeProfitPrice = st.sold.Price
                        /\ ledger[j].HedgeAmount = st.sold.Quantity
                        /\ ledger[j].BybitOrderID = st.sold.OrderID
        /\ (st.pc = "idle" /\ st.sold # NoSale /\ st.ledgerWrites = 0) =>
            st.result = Fatal

\* a pass returned success for a sell order smaller than the buy order
C16_Witness ==
    \E r \in Runners :
        /\ run[r].result = Success /\ run[r].ledgerWrites = 1
        /\ run[r].wait = "filledPart"
        /\ \E j \in DOMAIN ledger : ledger[j].BybitOrderID = run[r].sold.OrderID

(***************************************************************************)
(* C17: a reconciliation pass that read the ledger has asked the venue for *)
(* the status of every record that is not FILLED, CANCELLED or REJECTED,   *)
(* PENDING, PARTIALLY_FILLED and UNKNOWN records alike.  The code asks     *)
(* only for the PENDING records.                                           *)
(***************************************************************************)
C17_EveryOpenRecordExamined ==
    \A r \in Runners :
        run[r].reconciled = "done" =>
            \A j \in DOMAIN ledger :
                ~IsCompleted(ledger[j].OrderStatus) =>
                    ledger[j].BybitOrderID \in run[r].examined

(***************************************************************************)
(* C18: when the venue has executed the sell order of a record in full,    *)
(* and passes go on and the fetch and the update of an examined order      *)
(* succeed at some time, the record gets the status FILLED, whatever       *)
(* status (PARTIALLY_FILLED, UNKNOWN) was persisted before.  A record      *)
(* persisted as PARTIALLY_FILLED or UNKNOWN is never examined again.       *)
(***************************************************************************)
C18_FilledOnVenueLeadsToFilled ==
    \A j \in 1..MaxTrades :
        (j \in DOMAIN ledger /\ ledger[j].BybitOrderID \in venue)
            ~> (j \in DOMAIN ledger /\ ledger[j].OrderStatus = OrderStatusFilled)

(***************************************************************************)
(* C19: the write that makes a record FILLED sets its close price and its  *)
(* close time, so no record of the ledger is FILLED with an empty close    *)
(* price or an empty close time.  The code writes the FilledPrice and      *)
(* FilledTime of the answer, which are nil when the answer has no average  *)
(* price.                                                                  *)
(***************************************************************************)
C19_FilledHasCloseFields ==
    \A j \in DOMAIN ledger :
        ledger[j].OrderStatus = OrderStatusFilled =>
            ledger[j].ClosePrice # NilPrice /\ ledger[j].CloseTime # NilTime

(***************************************************************************)
(* C20: in passes run one after another the status of a record only        *)
(* advances: a FILLED, CANCELLED or REJECTED record keeps its status, its  *)
(* close price and its close time in every step, and a record that has     *)
(* left PENDING does not return to it.                                     *)
(***************************************************************************)
C20_StatusOnlyAdvances ==
    [][\A j \in DOMAIN ledger :
          /\ IsCompleted(ledger[j].OrderStatus) =>
                /\ ledger'[j].OrderStatus = ledger[j].OrderStatus
                /\ ledger'[j].ClosePrice = ledger[j].ClosePrice
                /\ ledger'[j].CloseTime = ledger[j].CloseTime
          /\ ledger[j].OrderStatus # OrderStatusPending =>
                ledger'[j].OrderStatus # OrderStatusPending]_vars

\* a pass has gone through the ledger while one record was CANCELLED and
\* another one was examined
C20_Witness ==
    \E r \in Runners, j \in DOMAIN ledger :
        /\ run[r].reconciled = "done"
        /\ ledger[j].OrderStatus = OrderStatusCancelled
        /\ ledger[j].BybitOrderID \notin run[r].examined
        /\ run[r].examined # {}

\* the record of the ledger with sell order o
RowOfOrder(rows, o) == rows[CHOOSE j \in DOMAIN rows : rows[j].BybitOrderID = o]

(***************************************************************************)
(* C21: an error of the status fetch of one record stays with that record. *)
(* The step in which the fetch fails leaves the ledger as it was, the pass *)
(* goes on with the records that remain, and when it returns it returns    *)
(* success having asked the venue for every record it had read.            *)
(***************************************************************************)
C21_FetchErrorIsolated ==
    /\ [](\A r \in Runners :
            LET st == run[r] IN
            /\ st.pc = "checkOrders" =>
                /\ st.k \in 1..Len(st.activeTrades)
                /\ st.examined = {st.activeTrades[j].BybitOrderID : j \in 1..(st.k - 1)}
            /\ st.fetchFailed # {} =>
                /\ st.reconciled \in {NULL, "done"}
                /\ st.reconciled = NULL => st.pc = "checkOrders"
                /\ st.reconciled = "done" => st.examined = st.listed)
    /\ [][\A r \in Runners :
            run'[r].fetchFailed # run[r].fetchFailed => ledger' = ledger]_vars

\* the fetch failed for the record the pass examined first, the fetch and
\* the update succeeded for the next one, and the pass returned success
C21_Witness ==
    \E r \in Runners :
        /\ run[r].reconciled = "done"
        /\ \E a \in run[r].fetchFailed, b \in run[r].synced : a > b
        /\ run[r].examined = run[r].listed

(***************************************************************************)
(* C22: in a tick of the scheduler the hedge pass starts when the          *)
(* reconciliation pass of the tick has returned, with success or with an   *)
(* error, so the two do not overlap; the records a reconciliation pass     *)
(* goes through were written in an earlier tick, and a record that         *)
(* reconciliation has written to was checked in a tick after the one that  *)
(* created it.                                                             *)
(***************************************************************************)
C22_HedgeAfterReconciliation ==
    /\ [](LET st == run["scheduler"] IN
          /\ st.pc = "execute" =>
                /\ st.reconciled \in {"done", "failed"}
                /\ st.activeTrades = <<>> /\ st.k = 0
          /\ st.pc = "checkOrders" => st.result = NoPass
          /\ \A j \in DOMAIN st.activeTrades : st.activeTrades[j].HedgeTime < Now
          /\ \A j \in DOMAIN ledger :
                /\ ledger[j].LastStatusCheck >= ledger[j].HedgeTime
                /\ ledger[j].OrderStatus # OrderStatusPending =>
                        ledger[j].LastStatusCheck > ledger[j].HedgeTime)
    /\ [][(run["scheduler"].result = NoPass /\ run'["scheduler"].result # NoPass) =>
            /\ run["scheduler"].pc = "execute"
            /\ run["scheduler"].reconciled \in {"done", "failed"}
            /\ passes' = passes]_vars

\* the hedge pass of a tick is under way, the reconciliation pass of the same
\* tick has checked a record of an earlier tick
C22_Witness ==
    /\ run["scheduler"].pc = "hedgeTrade"
    /\ run["operator"] = IdleRun
    /\ \E j \in DOMAIN ledger :
        ledger[j].LastStatusCheck = passes /\ ledger[j].HedgeTime < passes


(***************************************************************************)
(* Hedge passes of the scheduler and of the web interface.                 *)
(***************************************************************************)
\* the steps of a hedge pass after filterUnhedgedTrades has asked IsTradeHedged
\* and before the pass has returned
InHedgeAttempt(st) ==
    st.pc \in {"findAndHedgeTrade", "hedgeTrade", "placeBuy", "waitFill",
               "sellPrep", "placeSell", "save"}

\* the position a pass has bought for and not yet recorded
Buying(st) ==
    IF st.pc \in {"waitFill", "sellPrep", "placeSell", "save"}
    THEN {st.trades[st.i].ID}
    ELSE {}

\* C23: no two hedge passes (one of a scheduler tick, one triggered by the
\* operator) are in progress at once between their IsHedged/balance check and
\* their ledger write, and so no two passes hold a buy order for the same
\* unhedged position
C23_NoConcurrentHedgeAttempts ==
    \A a, b \in Runners :
        a # b =>
            /\ ~(InHedgeAttempt(run[a]) /\ InHedgeAttempt(run[b]))
            /\ Buying(run[a]) \cap Buying(run[b]) = {}


\* C24: every hedge pass ends by returning an outcome (success, a benign
\* no-op or an error), never abnormally, whatever the polls and the placements
\* answer: the wait loop makes at most maxWaitAttempts polls, the sell loop at
\* most RetryAttempts placements, and no pass ends in a panic
C24_EveryPassReturnsAnOutcome ==
    /\ ~crashed
    /\ \A r \in Runners :
        LET st == run[r] IN
        /\ st.result # Panic
        /\ st.pc = "waitFill" => st.attempt \in 1..maxWaitAttempts
        /\ st.pc = "placeSell" => st.attempt \in 1..config.RetryAttempts
        /\ st.sellSubmits <= config.RetryAttempts


\* C25: a cancellation signal raised while a hedge attempt is in progress
\* aborts neither an order placement nor the wait for the fill: no call of
\* the in-flight attempt fails because of the signal, and the attempt ends in
\* one of its terminal outcomes
C25_NoMidOperationCancellation ==
    \A r \in Runners :
        LET st == run[r] IN
        st.cancelled =>
            /\ st.aborted = {}
            /\ st.result # Panic


\* C26 as stated: the rejection of a candidate for the venue's minimums is
\* never the outcome a hedge pass returns to its caller
C26_MinLimitNeverReturned ==
    \A r \in Runners : run[r].result # ErrorTypeInsufficientBalanceForMinLimit

\* C26, amended: the rejection of a candidate for the venue's minimums makes
\* the pass try the next candidate and is not the outcome of a pass that went
\* on to a candidate it did not reject; it is the outcome returned to the
\* caller exactly when every eligible candidate of the pass was rejected this
\* way, and then no order was placed and the ledger was not written
C26_MinLimitReturnedWhenAllRejected ==
    \A r \in Runners :
        LET st == run[r]
            eligible == {st.trades[j].ID : j \in {k \in DOMAIN st.trades :
                                                    Eligible(st.trades[k])}}
            tried == {st.attempted[j].ID : j \in DOMAIN st.attempted}
            returned == st.pc = "idle" /\ st.result \notin {NoPass, Running}
        IN  /\ st.rejected \subseteq tried
            /\ st.result = ErrorTypeInsufficientBalanceForMinLimit =>
                /\ st.pc = "idle"
                /\ st.rejected # {} /\ st.rejected = eligible /\ tried = eligible
                /\ st.buySubmits = 0 /\ st.ledgerWrites = 0
            /\ (returned /\ st.rejected # {} /\ st.rejected = eligible) =>
                    st.result = ErrorTypeInsufficientBalanceForMinLimit
            /\ (returned /\ st.result # ErrorTypeInsufficientBalanceForMinLimit
                    /\ st.rejected # {}) =>
                    st.attempted[Len(st.attempted)].ID \notin st.rejected

\* a pass has returned the rejection after it rejected both of its candidates
C26_Witness ==
    \E r \in Runners :
        /\ run[r].pc = "idle"
        /\ run[r].result = ErrorTypeInsufficientBalanceForMinLimit
        /\ Cardinality(run[r].rejected) = 2


\* C27: a hedge pass that ends in any outcome other than success (benign,
\* skippable or fatal, a sell failure or a persistence failure after a filled
\* buy included) leaves the ledger as it was: the pass wrote nothing, the
\* positions it attempted are still reported unhedged, and a position whose
\* earlier attempt failed is a candidate of the next pass that is offered it
C27_FailedPassLeavesLedger ==
    /\ [](\A r \in Runners :
            LET st == run[r] IN
            /\ (st.pc = "idle" /\ st.result \notin {NoPass, Running, Success}) =>
                /\ st.ledgerWrites = 0
                /\ st.filtered => HedgedIDs(ledger) = st.hedgedAtStart
                /\ \A j \in DOMAIN st.attempted :
                        ~IsTradeHedged(ledger, st.attempted[j].ID)
            /\ st.filtered =>
                \A id \in st.offered :
                    (buys[id] > succ[id] /\ id \notin st.hedgedAtStart) =>
                        id \in IDsOf(st.trades))
    /\ [][\A r \in Runners :
            (run[r].result = Running /\ run'[r].result \notin {Running, Success}) =>
                ledger' = ledger]_vars

\* a pass has failed to store its record after the buy was filled and the sell
\* order accepted; the ledger has no row for the position
C27_Witness ==
    \E r \in Runners :
        LET st == run[r] IN
        /\ st.pc = "idle" /\ st.result = Fatal
        /\ st.sold # NoSale /\ st.ledgerWrites = 0
        /\ st.attempted # <<>>
        /\ ~IsTradeHedged(ledger, st.attempted[Len(st.attempted)].ID)


\* C28: whatever part of its quantity a FILLED buy order has filled (less or
\* more than 95%), the attempt goes on to the sell leg; the quantity of the
\* sell order is the filled quantity (or what is left of it in the account),
\* never the requested one, and the pass submits no second buy order
C28_PartialFillProceedsToSell ==
    \A r \in Runners :
        LET st == run[r] IN
        /\ st.wait \in {"filledPart", "filledAll"} <=> st.sellLeg
        /\ st.sellLeg =>
            /\ RLt(RInt(0), st.filledQty)
            /\ st.buySubmits = 1
            /\ st.pc \in {"sellPrep", "placeSell", "save", "idle"}
            /\ st.pc # "idle" =>
                /\ RLe(st.filledQty, st.buyOrder.Quantity)
                /\ st.wait = "filledPart" => st.filledQty \in PartQuantities(st)
        /\ st.pc \in {"placeSell", "save"} =>
            /\ RLe(st.actualQuantity, st.filledQty)
            /\ (st.available = NilPrice \/ RLe(st.filledQty, st.available)) =>
                    st.actualQuantity = st.filledQty
        /\ st.sold # NoSale =>
            /\ RLe(st.sold.Quantity, st.filledQty)
            /\ (st.available = NilPrice \/ RLe(st.filledQty, st.available)) =>
                    st.sold.Quantity = st.filledQty

\* the venue has accepted a sell order for the 94% that the buy order filled
C28_Witness ==
    \E r \in Runners :
        LET st == run[r] IN
        /\ st.pc = "save" /\ st.wait = "filledPart"
        /\ st.filledQty = RMul(st.buyOrder.Quantity, Rat(94, 100))
        /\ st.sold.Quantity = st.filledQty
        /\ st.buySubmits = 1


\* C29: before the sell order, an available balance of the base asset below
\* the filled quantity makes the attempt sell the available balance instead of
\* failing; with an available balance of zero the attempt fails fatally and
\* places no sell order; so whenever the balance was fetched, the quantity of
\* the sell order is positive and at most the filled quantity and the balance
C29_SellQuantityClamped ==
    \A r \in Runners :
        LET st == run[r]
            fetched == st.available # NilPrice
        IN
        /\ (fetched /\ st.pc \in {"placeSell", "save"}) =>
            /\ RLt(RInt(0), st.actualQuantity)
            /\ RLe(st.actualQuantity, st.filledQty)
            /\ RLe(st.actualQuantity, st.available)
            /\ RLt(st.available, st.filledQty) => st.actualQuantity = st.available
        /\ (fetched /\ st.sold # NoSale) =>
            /\ RLt(RInt(0), st.sold.Quantity)
            /\ RLe(st.sold.Quantity, st.filledQty)
            /\ RLe(st.sold.Quantity, st.available)
            /\ RLt(st.available, st.filledQty) => st.sold.Quantity = st.available
        /\ (fetched /\ RLe(st.available, RInt(0))) =>
            /\ st.pc = "idle" /\ st.result = Fatal
            /\ st.sellSubmits = 0 /\ st.sold = NoSale /\ st.ledgerWrites = 0
        /\ (fetched /\ RLt(RInt(0), st.available) /\ st.pc = "idle") =>
                st.sellSubmits >= 1

\* the venue has accepted a sell order for the available balance, half of
\* the quantity the buy order filled
C29_Witness ==
    \E r \in Runners :
        LET st == run[r] IN
        /\ st.available # NilPrice /\ st.sold # NoSale
        /\ RLt(st.available, st.filledQty)
        /\ st.sold.Quantity = st.available


\* C30: when the venue answers the status the record already has, the
\* reconciliation changes only the last-checked time of that record: its
\* status, close price and close time and every other record stay as they
\* were; the check counts as successful (unless the update of the time itself
\* fails, which changes nothing), and the record is not counted among those
\* whose status changed
C30_UnchangedStatusOnlyTouches ==
    [][\A r \in Runners :
        \A o \in run'[r].examined \ run[r].examined :
            LET row == RowOfOrder(ledger, o)
                after == RowOfOrder(ledger', o)
            IN  <<o, row.OrderStatus>> \in run'[r].answers =>
                /\ DOMAIN ledger' = DOMAIN ledger
                /\ \A j \in DOMAIN ledger :
                        ledger[j].BybitOrderID # o => ledger'[j] = ledger[j]
                /\ after = [row EXCEPT !.LastStatusCheck = after.LastStatusCheck]
                /\ after.LastStatusCheck \in {row.LastStatusCheck, Now}
                /\ o \in run'[r].synced => after.LastStatusCheck = Now
                /\ o \notin run'[r].synced => ledger' = ledger
                /\ o \notin run'[r].fetchFailed
                /\ run'[r].updatedCount = run[r].updatedCount]_vars

\* a pass has touched a record the venue still reports PENDING: the record
\* is PENDING with no close fields, checked now, and not counted as changed
C30_Witness ==
    \E r \in Runners :
        \E o \in run[r].synced :
            LET row == RowOfOrder(ledger, o) IN
            /\ <<o, OrderStatusPending>> \in run[r].answers
            /\ row.OrderStatus = OrderStatusPending
            /\ row.ClosePrice = NilPrice /\ row.CloseTime = NilTime
            /\ row.LastStatusCheck = Now /\ row.LastStatusCheck > row.HedgeTime
            /\ run[r].updatedCount = 0


\* C31: when the venue reports CANCELLED or REJECTED for a record whose
\* persisted status is not terminal, reconciliation stores that status with
\* a close time and no close price: the record is terminal and unsuccessful
C31_CancelledGetsCloseTimeOnly ==
    /\ [](\A j \in DOMAIN ledger :
            ledger[j].OrderStatus \in {OrderStatusCancelled, OrderStatusRejected} =>
                /\ ledger[j].CloseTime # NilTime
                /\ ledger[j].ClosePrice = NilPrice)
    /\ [][\A r \in Runners :
            \A o \in run'[r].synced \ run[r].synced :
                LET row == RowOfOrder(ledger, o)
                    after == RowOfOrder(ledger', o)
                IN  \A s \in {OrderStatusCancelled, OrderStatusRejected} :
                        (<<o, s>> \in run'[r].answers /\ ~IsCompleted(row.OrderStatus)) =>
                            /\ after = [row EXCEPT !.OrderStatus = s,
                                                   !.CloseTime = Now,
                                                   !.ClosePrice = NilPrice,
                                                   !.LastStatusCheck = Now]
                            /\ IsCompleted(after.OrderStatus)
                            /\ run'[r].updatedCount = run[r].updatedCount + 1]_vars

\* a pass has stored CANCELLED for a record that was PENDING
C31_Witness ==
    \E r \in Runners :
        \E o \in run[r].synced :
            LET row == RowOfOrder(ledger, o) IN
            /\ <<o, OrderStatusCancelled>> \in run[r].answers
            /\ row.OrderStatus = OrderStatusCancelled
            /\ row.CloseTime = Now /\ row.ClosePrice = NilPrice
            /\ run[r].updatedCount >= 1


\* C32 as stated: the failure of a gateway call other than the sell placement
\* ends the attempt with an error: an attempt does not go on after a failed
\* fetch of the constraints, after a failed fetch of the base-asset balance,
\* or after a failed poll of the wait for the fill
C32_GatewayFailuresAreFatal ==
    /\ [](\A r \in Runners :
            LET st == run[r] IN
            /\ st.infoFailed => (st.pc = "idle" /\ st.result = Fatal)
            /\ st.pc \in {"placeSell", "save"} => st.available # NilPrice)
    /\ [][\A r \in Runners :
            (run[r].cancelled /\ run[r].pc = "waitFill" /\ run'[r] # run[r]) =>
                (run'[r].pc = "idle" /\ run'[r].result = Fatal)]_vars

\* C32, amended: the failure of the quote-balance fetch or of the buy
\* placement ends the attempt with a fatal error and the call is not
\* repeated; a failed fetch of the constraints is replaced by the default
\* minimums, a failed fetch of the base-asset balance leaves the filled
\* quantity as the quantity to sell, and a failed poll before the last one is
\* followed by the next poll: none of these ends the attempt
C32_FatalAndToleratedFailures ==
    /\ [](\A r \in Runners :
            LET st == run[r] IN
            /\ (st.sizing.ID # 0 /\ ~st.sizing.balanceKnown) =>
                /\ st.pc = "idle" /\ st.result = Fatal
                /\ st.buySubmits = 0 /\ st.ledgerWrites = 0
            /\ st.infoFailed =>
                /\ st.sizing.type \in {"Order", ErrorTypeInsufficientBalanceForMinLimit}
                /\ st.sizing.type = "Order" => st.pc = "placeBuy"
                /\ st.result # Fatal
            /\ (st.pc \in {"placeSell", "save"} /\ st.available = NilPrice) =>
                st.actualQuantity = st.filledQty)
    /\ [][\A r \in Runners :
            /\ (run[r].pc = "placeBuy" /\ run'[r].buySubmits # run[r].buySubmits
                    /\ run'[r].pc # "waitFill") =>
                /\ run'[r].pc = "idle" /\ run'[r].result = Fatal
                /\ run'[r].buySubmits = run[r].buySubmits + 1
                /\ orderSeq' = orderSeq /\ buys' = buys
            /\ (run[r].cancelled /\ run[r].pc = "waitFill" /\ run'[r] # run[r]
                    /\ run[r].attempt < maxWaitAttempts) =>
                /\ run'[r].pc = "waitFill"
                /\ run'[r].attempt = run[r].attempt + 1]_vars

\* an attempt is about to place its sell order for the filled quantity after
\* the fetch of the base-asset balance failed
C32_Witness ==
    \E r \in Runners :
        LET st == run[r] IN
        /\ st.pc = "placeSell" /\ st.sellLeg
        /\ st.available = NilPrice
        /\ st.actualQuantity = st.filledQty
        /\ st.result = Running


\* C33: once the stop signal of the scheduler has been raised between ticks,
\* no further tick starts: neither a reconciliation pass nor a hedge pass
\* begins after it, whether or not the timer is due when the signal is seen
C33_NoTickAfterSignal ==
    [][(StopSignalled("scheduler", run["scheduler"]) /\ run["scheduler"].pc = "idle") =>
            (run'["scheduler"].pc = "idle" /\ passes' = passes)]_vars


\* C34: a record is created once, by the hedge pass, and afterwards changed
\* only by reconciliation: a hedge pass appends one row for a position that
\* had none and changes no existing row; a reconciliation pass changes no
\* field of a row but status, close price, close time and last-checked time,
\* and neither adds nor removes a row
C34_InsertOnceThenReconcile ==
    [][ledger' # ledger =>
        LET hedge == \E r \in Runners :
                        /\ run[r].pc = "save"
                        /\ run'[r].ledgerWrites = run[r].ledgerWrites + 1
            recon == \E r \in Runners :
                        /\ run[r].pc = "checkOrders"
                        /\ run'[r].examined # run[r].examined
            n == Len(ledger)
        IN  \/ /\ hedge /\ ~recon
               /\ Len(ledger') = n + 1
               /\ \A j \in 1..n : ledger'[j] = ledger[j]
               /\ ~IsTradeHedged(ledger, ledger'[n + 1].FreqtradeTradeID)
            \/ /\ recon /\ ~hedge
               /\ Len(ledger') = n
               /\ \A j \in 1..n :
                    ledger'[j] = [ledger[j] EXCEPT
                                    !.OrderStatus = ledger'[j].OrderStatus,
                                    !.ClosePrice = ledger'[j].ClosePrice,
                                    !.CloseTime = ledger'[j].CloseTime,
                                    !.LastStatusCheck = ledger'[j].LastStatusCheck]]_vars

\* a record that a hedge pass created has been given another status by a
\* later reconciliation pass
C34_Witness ==
    \E j \in DOMAIN ledger :
        /\ ledger[j].OrderStatus # OrderStatusPending
        /\ ledger[j].LastStatusCheck > ledger[j].HedgeTime
        /\ succ[ledger[j].FreqtradeTradeID] = 1


(***************************************************************************)
(* entities.HedgedTrade.IsActive and CalculateProfit, and what the web     *)
(* interface reports of the ledger: convertToTradeViews gives each record  *)
(* its profit, calculateStats adds the profits of the completed records.   *)
(***************************************************************************)
RSub(a, b) == RAdd(a, [n |-> -(b.n), d |-> b.d])

IsActive(ht) == ~IsCompleted(ht.OrderStatus)

\* a faulty variant: the price difference is not multiplied by the quantity
CalculateProfit_PerUnit(ht) ==
    IF ht.ClosePrice = NilPrice
    THEN NilPrice
    ELSE RSub(ht.ClosePrice, ht.HedgeOpenPrice)

CalculateProfit(ht) ==
    IF ht.ClosePrice = NilPrice
    THEN NilPrice
    ELSE RMul(RSub(ht.ClosePrice, ht.HedgeOpenPrice), ht.HedgeAmount)

convertToTradeViews(trades) ==
    [j \in DOMAIN trades |->
        [FreqtradeTradeID |-> trades[j].FreqtradeTradeID,
         OrderStatus |-> trades[j].OrderStatus,
         ClosePrice |-> trades[j].ClosePrice,
         Profit |-> CalculateProfit(trades[j])]]

RECURSIVE TotalProfit(_, _)
TotalProfit(trades, k) ==
    IF k = 0
    THEN RInt(0)
    ELSE LET rest == TotalProfit(trades, k - 1)
             profit == CalculateProfit(trades[k])
         IN  IF IsActive(trades[k]) \/ profit = NilPrice
             THEN rest
             ELSE RAdd(rest, profit)

calculateStats(trades) ==
    [Total |-> Len(trades),
     Active |-> Cardinality({k \in DOMAIN trades : IsActive(trades[k])}),
     Completed |-> Cardinality({k \in DOMAIN trades : ~IsActive(trades[k])}),
     TotalProfit |-> TotalProfit(trades, Len(trades))]

HasClosePrice(ht) == ht.ClosePrice # NilPrice

\* C35: for every record whose close price is set the profit reported is
\* (closePrice - hedgeOpenPrice) * hedgeQuantity, i.e. the profit and the
\* cost of the hedge add up to its proceeds (close 52100, open 50050,
\* quantity 0.002 give 4.10); no profit is reported for a record without a
\* close price, and such records add nothing to the total profit
C35_ProfitOfClosedRecords ==
    /\ \A j \in DOMAIN ledger :
        LET ht == ledger[j]
            view == convertToTradeViews(ledger)[j]
        IN  /\ ~HasClosePrice(ht) => view.Profit = NilPrice
            /\ HasClosePrice(ht) =>
                /\ view.Profit # NilPrice
                /\ RAdd(view.Profit, RMul(ht.HedgeOpenPrice, ht.HedgeAmount))
                       = RMul(ht.ClosePrice, ht.HedgeAmount)
    /\ calculateStats(ledger).TotalProfit
           = calculateStats(SelectSeq(ledger, HasClosePrice)).TotalProfit
    /\ CalculateProfit([ClosePrice |-> RInt(52100), HedgeOpenPrice |-> RInt(50050),
                        HedgeAmount |-> Rat(2, 1000)]) = Rat(41, 10)

\* a record has been reconciled to FILLED with a close price, and a profit
\* other than zero is reported for it and in the total
C35_Witness ==
    \E j \in DOMAIN ledger :
        /\ ledger[j].OrderStatus = OrderStatusFilled
        /\ HasClosePrice(ledger[j])
        /\ RLt(RInt(0), convertToTradeViews(ledger)[j].Profit)
        /\ RLt(RInt(0), calculateStats(ledger).TotalProfit)


\* C36: every buy order submitted has a quantity that is positive and at
\* least the minimum order quantity in force, and a positive limit price:
\* the price is CurrentRate * 1.001 rounded to the tick, and where that is
\* not positive or is below 0.0001 it is the unrounded CurrentRate * 1.001
C36_BuyOrderQuantityAndPrice ==
    /\ \A r \in Runners :
        run[r].pc \in {"placeBuy", "waitFill"} =>
            /\ RLt(RInt(0), run[r].buyOrder.Quantity)
            /\ RLt(RInt(0), run[r].buyOrder.Price)
    /\ (sizeCase.pc # "none" /\ sizeCase.buyOrder.type = "Order") =>
        LET order == sizeCase.buyOrder
            info == sizeCase.info
            buffered == RMul(sizeCase.trade.CurrentRate, Rat(1001, 1000))
            rounded == IF info.TickSize.n > 0
                       THEN RoundToMultiple(buffered, info.TickSize)
                       ELSE buffered
            collapsed == rounded.n <= 0 \/ RLt(rounded, Rat(1, 10000))
        IN  /\ RLt(RInt(0), order.Quantity)
            /\ RLe(EffectiveMinOrderQty(info, FALSE), order.Quantity)
            /\ RLt(RInt(0), order.Price)
            /\ order.Price = IF collapsed THEN buffered ELSE rounded

\* a buy order has been sized whose price rounded to the tick is positive
\* and below 0.0001, and the unrounded price is submitted
C36_Witness ==
    /\ sizeCase.pc # "none"
    /\ sizeCase.buyOrder.type = "Order"
    /\ sizeCase.info.TickSize.n > 0
    /\ LET rounded == RoundToMultiple(RMul(sizeCase.trade.CurrentRate, Rat(1001, 1000)),
                                      sizeCase.info.TickSize)
       IN  /\ RLt(RInt(0), rounded)
           /\ RLt(rounded, Rat(1, 10000))
           /\ sizeCase.buyOrder.Price # rounded


\* C37: the hedge open price of a record is the hedge's own open price, the
\* limit price of the buy order that opened it, and not the current price of
\* the position
C37_HedgeOpenPriceIsBuyPrice ==
    [][\A r \in Runners :
        (run[r].pc = "save" /\ Len(ledger') = Len(ledger) + 1) =>
            ledger'[Len(ledger')].HedgeOpenPrice = run[r].buyOrder.Price]_vars


\* C38: the notional of the buy order submitted, its step-rounded quantity
\* times its limit price, never exceeds the required amount
\* PositionAmount * 1.01 that was checked against the available balance
C38_BuyNotionalWithinRequired ==
    /\ \A r \in Runners :
        run[r].pc \in {"placeBuy", "waitFill"} =>
            RLe(RMul(run[r].buyOrder.Quantity, run[r].buyOrder.Price),
                RequiredBuyNotional(config))
    /\ (sizeCase.pc # "none" /\ sizeCase.buyOrder.type = "Order") =>
            RLe(RMul(sizeCase.buyOrder.Quantity, sizeCase.buyOrder.Price),
                sizeCase.requiredAmount)


\* C39: every record of the ledger has a take-profit price strictly greater
\* than its hedge open price, whatever the position's loss, the (positive)
\* profit-capture ratio and the tick size
C39_TakeProfitAboveOpenPrice ==
    \A j \in DOMAIN ledger :
        RLt(ledger[j].HedgeOpenPrice, ledger[j].HedgeTakeProfitPrice)


\* C40: a record that a reconciliation pass has written as FILLED with close
\* price and close time is never written back to PENDING with empty close
\* fields, also when a pass of the scheduler and a pass of the operator
\* interleave on the record
C40_FilledNeverBackToPending ==
    [][\A j \in DOMAIN ledger :
        (/\ ledger[j].OrderStatus = OrderStatusFilled
         /\ ledger[j].ClosePrice # NilPrice
         /\ ledger[j].CloseTime # NilTime)
        => ~(/\ ledger'[j].OrderStatus = OrderStatusPending
             /\ ledger'[j].ClosePrice = NilPrice
             /\ ledger'[j].CloseTime = NilTime)]_vars

====
